---- MODULE Spec2Model ----
(***************************************************************************)
(* Event bus (shared/utils/rabbitmq.py) and the planner -> developer -> QA *)
(* loop (services/*/main.py) of the ADMADC pipeline.                       *)
(*                                                                         *)
(* Part I models EventBus: publish, subscribe's _on_message callback with  *)
(* its idempotency store, _republish_for_retry and _route_to_dlq, for two  *)
(* subscriptions whose bindings overlap, with optional replicas and        *)
(* consumer stops.                                                         *)
(***************************************************************************)
EXTENDS Naturals, Integers, Sequences, FiniteSets, TLC

VARIABLES
    queue,       \* queue[q]: ready messages of the durable queue q, FIFO
    dlq,         \* dlq[q]: messages of the paired queue dlq.<q>
    seen,        \* seen[q]: the IdempotencyStore handed to subscribe() for q
    maxRetries,  \* maxRetries[q]: the max_retries argument of subscribe() for q
    pc,          \* pc[c]: where consumer c stands inside _on_message
    cur,         \* cur[c]: the delivery consumer c is processing
    trace,       \* trace[q]: what the consumers of q did, in order (history);
                 \* trace["producer"]: the malformed bodies sent
    published,   \* number of publish() calls made for the envelope
    stops        \* number of consumer stops so far

busVars == <<queue, dlq, seen, maxRetries, pc, cur, trace, published, stops>>

(* Part II models one plan going through the planner (_execute_plan), the  *)
(* developer (_handle_task) and QA (_handle_code_review), each a single    *)
(* consumer of its queue, with the Memory service's event log and task     *)
(* rows between them. Every await of a handler is a step.                  *)
VARIABLES
    nTasks,        \* number of tasks the planner's LLM decomposed the prompt into
    maxQaRetries,  \* cfg.max_qa_retries of the QA service
    planPc,        \* planner: "idle", "plan", <<"assign", t>>, "done"
    devQ,          \* queue dev_service.tasks (task.assigned)
    qaQ,           \* queue qa_service.code_review (code.generated)
    svcSeen,       \* svcSeen[s]: the IdempotencyStore of service s's subscription
    svcDlq,        \* svcDlq[s]: dlq.<queue of s>
    devPc,         \* where the developer's callback stands
    devLoc,        \* its locals: the delivery, `payload`, code, current_attempt
    qaPc,          \* where QA's callback stands
    qaLoc,         \* its locals: the delivery, `result`
    memEvents,     \* Memory: rows of the event log, in insertion order
    memTasks,      \* Memory: task_states rows by task_id
    emitted,       \* every event published on the bus, in order (history)
    qaRuns         \* one record per finished QA review (history)

pipeVars == <<nTasks, maxQaRetries, planPc, devQ, qaQ, svcSeen, svcDlq, devPc, devLoc,
              qaPc, qaLoc, memEvents, memTasks, emitted, qaRuns>>

(* Part III models the security service (_handle_security_scan around the   *)
(* scanner) and the gateway's human-in-the-loop gate: the interceptor of    *)
(* security.approved and the approve / reject endpoints, called by humans   *)
(* whose requests interleave at the awaits.                                 *)
VARIABLES
    prQ,              \* queue security_service.pr_requests (pr.requested)
    secPc,            \* where the security callback stands
    secLoc,           \* its locals: the delivery, `result`, the event built
    hitlQ,            \* queue gateway_service.hitl_approvals (security.approved)
    gwPc,             \* where the gateway's interceptor stands
    gwLoc,            \* its locals: `sec`, the approval built
    pendingApprovals, \* _pending_approvals: approval_id -> approval
    nextApproval,     \* the next fresh approval_id
    httpPc,           \* httpPc[h]: where the request of human h stands
    httpLoc,          \* httpLoc[h]: the approval and event the request holds
    injected,         \* pr.requested / security.approved published by the environment
    gateEmitted,      \* events the two services published, in order (history)
    scans,            \* one record per finished security scan (history)
    intercepts,       \* one record per finished interceptor run (history)
    calls             \* one record per approve / reject request (history)

gateVars == <<prQ, secPc, secLoc, hitlQ, gwPc, gwLoc, pendingApprovals, nextApproval,
              httpPc, httpLoc, injected, gateEmitted, scans, intercepts, calls>>

(* Part IV models the Memory service's POST /events (the envelope is       *)
(* rebuilt from the body, then MemoryStore.store_event selects and         *)
(* inserts), called by concurrent requests.                                *)
VARIABLES
    storePc,     \* storePc[w]: where request w stands inside store_event
    storeLoc,    \* storeLoc[w]: the envelope request w built
    storeCalls   \* one record per finished request (history)

memVars == <<storePc, storeLoc, storeCalls>>

(* Part V models the planner's consumer of plan.revision_suggested         *)
(* (_consume_plan_revisions.handler, _handle_plan_revision, _execute_plan  *)
(* with a forced plan id).                                                 *)
VARIABLES
    revQ,        \* queue meta_planner.plan_revisions
    revPc,       \* where the revision callback stands
    revLoc,      \* its locals: the payload, the prompt, the tasks left
    revSent,     \* plans created and revisions suggested so far
    revRuns      \* one record per finished run of the callback (history)

revVars == <<revQ, revPc, revLoc, revSent, revRuns>>

(* Part VI models the replanner's consumer of qa.failed and                 *)
(* security.blocked (_consume_outcomes, _analyse_and_emit_revision,        *)
(* critic.analyse_outcome).                                                *)
VARIABLES
    outQ,        \* queue replanner_service.outcomes
    repPc,       \* where the replanner's callback stands
    repLoc,      \* its locals: the outcome, the prompt, the decision
    repSent,     \* outcomes published so far
    repRuns      \* one record per finished run of the callback (history)

repVars == <<outQ, repPc, repLoc, repSent, repRuns>>

(* Part VII models the planner's POST /plan (create_plan with its          *)
(* in-process idempotency cache) under concurrent requests.                *)
VARIABLES
    idemCache,   \* _plan_idem_cache: key -> (plan_id, cached_at), or NoEntry
    reqPc,       \* reqPc[r]: where request r stands inside create_plan
    reqLoc,      \* reqLoc[r]: its key and the `now` it read
    clock,       \* time.monotonic(), in seconds
    nextPlan,    \* plan ids generated so far
    planCalls    \* one record per answered request (history)

planVars == <<idemCache, reqPc, reqLoc, clock, nextPlan, planCalls>>

(* Part VIII models MemoryStore.semantic_search over an index of points.  *)
VARIABLES
    index,       \* the vector index: points in the order the query retrieves them
    search       \* the last search: its arguments and its result

searchVars == <<index, search>>

(* Part IX models direct calls of the Memory service's POST /tasks.          *)
VARIABLES
    taskCall     \* the last POST /tasks: its body, the rows before and after

taskVars == <<taskCall>>

\* Part X: one queue with one consumer, delivery by delivery.
VARIABLES
    fifoQ,       \* ready messages of the queue, FIFO
    callbacks,   \* the _on_message tasks alive: delivery and where each stands
    handled,     \* handler invocations started, in order (history)
    fifoSent     \* messages published so far: message n is the n-th enqueued

fifoVars == <<fifoQ, callbacks, handled, fifoSent>>

\* Part XI: Memory writes that fail inside the handlers of Parts II and III.
VARIABLES
    writeFails   \* one record per failed POST /events or POST /tasks (history)

faultVars == <<writeFails>>

\* Part XII: QA's qa.passed branch and its plan-readiness barrier.
VARIABLES
    prRequested  \* the files of each pr.requested QA published (history)

barVars == <<prRequested>>

\* Everything outside Parts I and II.
extVars == <<gateVars, memVars, revVars, repVars, planVars, searchVars, taskVars, fifoVars, faultVars, barVars>>

\* Everything outside Part II and Part III, IV, V, VI, VII respectively.
gateOthers == <<busVars, memVars, revVars, repVars, planVars, searchVars, taskVars, fifoVars, faultVars, barVars>>

memOthers == <<busVars, gateVars, revVars, repVars, planVars, searchVars, taskVars, fifoVars, faultVars, barVars>>

revOthers == <<busVars, gateVars, memVars, repVars, planVars, searchVars, taskVars, fifoVars, faultVars, barVars>>

repOthers == <<busVars, gateVars, memVars, revVars, planVars, searchVars, taskVars, fifoVars, faultVars, barVars>>

planOthers == <<busVars, gateVars, memVars, revVars, repVars, searchVars, taskVars, fifoVars, faultVars, barVars>>

searchOthers == <<busVars, gateVars, memVars, revVars, repVars, planVars, taskVars, fifoVars, faultVars, barVars>>

taskOthers == <<busVars, gateVars, memVars, revVars, repVars, planVars, searchVars, fifoVars, faultVars, barVars>>

fifoOthers == <<busVars, gateVars, memVars, revVars, repVars, planVars, searchVars, taskVars, faultVars, barVars>>

faultOthers == <<busVars, gateVars, memVars, revVars, repVars, planVars, searchVars, taskVars, fifoVars, barVars>>

barOthers == <<busVars, gateVars, memVars, revVars, repVars, planVars, searchVars, taskVars, fifoVars, faultVars>>

\* Everything outside Parts II, III and XI.
gateFaultOthers == <<busVars, memVars, revVars, repVars, planVars, searchVars, taskVars, fifoVars,
                     barVars>>

vars == <<busVars, pipeVars, extVars>>

----------------------------------------------------------------------------
(* Bounds *)

MaxPublish == 2          \* publish() calls for the one envelope (double send)
MaxRetriesLimit == 3     \* max_retries ranges over 1..MaxRetriesLimit
MaxStops == 1            \* consumer stops in a run of SpecCrash
MaxLongRetries == 8      \* max_retries ranges over 1..MaxLongRetries in SpecRetry
MaxMalformed == 1        \* malformed messages published in SpecRetry
MaxTasks == 2            \* tasks of the plan
MaxQaRetriesLimit == 2   \* MAX_QA_RETRIES ranges over 0..MaxQaRetriesLimit

----------------------------------------------------------------------------
(* Topology: two subscriptions bound to overlapping routing keys, as       *)
(* dev_service.tasks (task.assigned) and gateway_service.broadcast (#).    *)

Queues == {"dev_service.tasks", "gateway_service.broadcast"}

RoutingKey == "task.assigned"

Bindings(q) == IF q = "dev_service.tasks" THEN {"task.assigned"} ELSE {"#"}

\* Topic match of a binding pattern against a routing key.
Matches(pattern, rk) == pattern = "#" \/ pattern = rk

\* Queues (and paired dead-letter queues, bound to the same keys) that
\* receive a message published with routing key rk.
BoundQueues(rk) == {q \in Queues : \E p \in Bindings(q) : Matches(p, rk)}

\* Consumers: one per queue, plus a replica competing on dev_service.tasks.
Consumers == {"dev1", "dev2", "gw1"}

Replicas == {"dev2"}

QueueOf(c) == IF c = "gw1" THEN "gateway_service.broadcast" ELSE "dev_service.tasks"

EnvelopeKey == "k"

NoMsg == [key |-> "none", rc |-> 0, final |-> FALSE, bad |-> FALSE]

\* A message on a queue: the envelope's key, the x-retry-count and
\* x-final-failure headers; bad: the body is not a valid envelope.
Message(k, n, f) == [key |-> k, rc |-> n, final |-> f, bad |-> FALSE]

\* The same headers around a body that json.loads or
\* BaseEvent.model_validate rejects.
Malformed(m) == [m EXCEPT !.bad = TRUE]

\* The copy _republish_for_retry and _route_to_dlq publish: the body of m
\* unchanged under new headers.
SameBody(m, n, f) == [m EXCEPT !.rc = n, !.final = f]

----------------------------------------------------------------------------
(* Pure parts of _on_message *)

\* The retry-scoped key: the envelope key for x-retry-count 0, else the key
\* with ":retry:<n>" appended (a pair here: <<key, 0>> is the plain key).
EffectiveKeyUnscoped(m) == <<m.key, 0>>

EffectiveKey(m) == IF m.rc = 0 THEN <<m.key, 0>> ELSE <<m.key, m.rc>>

\* IdempotencyStore.is_seen / mark_seen on the store's key set.
StoreIsSeen(s, k) == k \in s

StoreForgets(s, k) == s

StoreMarkSeen(s, k) == s \cup {k}

\* if retry_count < max_retries - 1: retry, else dead-letter.
RetriesLeftOffByOne(rc, max) == rc < max

RetriesLeft(rc, max) == rc < max - 1

RECURSIVE Pow2(_)
Pow2(n) == IF n = 0 THEN 1 ELSE 2 * Pow2(n - 1)

Min(a, b) == IF a < b THEN a ELSE b

\* delay = min(retry_delay_base * (2 ** retry_count), 32.0), in seconds.
RetryDelayBase == 1

RetryDelayUncapped(rc) == RetryDelayBase * Pow2(rc)

RetryDelay(rc) == Min(RetryDelayBase * Pow2(rc), 32)

Append2(f, q, e) == [f EXCEPT ![q] = Append(@, e)]

\* exchange.publish: one copy is appended to every queue bound to the key.
Route(qs, rk, m) == [q \in Queues |-> IF q \in BoundQueues(rk) THEN Append(qs[q], m) ELSE qs[q]]

----------------------------------------------------------------------------
(* Initial states *)

\* max_retries of the subscriptions: up to MaxRetriesLimit each, and up to
\* MaxLongRetries when dev_service.tasks has the only consumer.
RetriesRange(active) == IF active = {"dev1"} THEN MaxLongRetries ELSE MaxRetriesLimit

BusInit(active) ==
    /\ queue = [q \in Queues |-> <<>>]
    /\ dlq = [q \in Queues |-> <<>>]
    /\ seen = [q \in Queues |-> {}]
    /\ maxRetries \in [Queues -> 1..RetriesRange(active)]
    /\ pc = [c \in Consumers |-> IF c \in active THEN "idle" ELSE "absent"]
    /\ cur = [c \in Consumers |-> NoMsg]
    /\ trace = [q \in Queues \cup {"producer"} |-> <<>>]
    /\ published = 0
    /\ stops = 0

----------------------------------------------------------------------------
(* EventBus.publish: persistent message, x-retry-count 0, routing key =    *)
(* event_type, on the main exchange.                                       *)
Publish ==
    /\ published < MaxPublish
    /\ published' = published + 1
    /\ queue' = Route(queue, RoutingKey, Message(EnvelopeKey, 0, FALSE))
    /\ UNCHANGED <<extVars, pipeVars, dlq, seen, maxRetries, pc, cur, trace, stops>>

(* _on_message, up to the idempotency lookup: with prefetch 1 an idle      *)
(* consumer is handed the head of its queue, which stays unacknowledged.   *)
Receive(c) ==
    /\ pc[c] = "idle"
    /\ queue[QueueOf(c)] # <<>>
    /\ cur' = [cur EXCEPT ![c] = Head(queue[QueueOf(c)])]
    /\ queue' = [queue EXCEPT ![QueueOf(c)] = Tail(@)]
    /\ pc' = [pc EXCEPT ![c] = "is_seen"]
    /\ UNCHANGED <<extVars, pipeVars, dlq, seen, maxRetries, trace, published, stops>>

(* await idempotency_store.is_seen(effective_key): a duplicate is          *)
(* acknowledged (normal exit of message.process) without the handler.      *)
IsSeen(c) ==
    /\ pc[c] = "is_seen"
    /\ ~cur[c].bad
    /\ IF StoreIsSeen(seen[QueueOf(c)], EffectiveKey(cur[c]))
       THEN /\ pc' = [pc EXCEPT ![c] = "idle"]
            /\ cur' = [cur EXCEPT ![c] = NoMsg]
            /\ trace' = Append2(trace, QueueOf(c), <<"skip", cur[c].rc>>)
       ELSE /\ pc' = [pc EXCEPT ![c] = "mark_seen"]
            /\ UNCHANGED <<cur, trace>>
    /\ UNCHANGED <<extVars, pipeVars, queue, dlq, seen, maxRetries, published, stops>>

(* await idempotency_store.mark_seen(effective_key), then the handler is   *)
(* called.                                                                 *)
MarkSeen(c) ==
    /\ pc[c] = "mark_seen"
    /\ seen' = [seen EXCEPT ![QueueOf(c)] = StoreMarkSeen(@, EffectiveKey(cur[c]))]
    /\ pc' = [pc EXCEPT ![c] = "handler"]
    /\ trace' = Append2(trace, QueueOf(c), <<"call", cur[c].rc, cur[c].bad>>)
    /\ UNCHANGED <<extVars, pipeVars, queue, dlq, maxRetries, cur, published, stops>>

(* The handler returns: message.process acknowledges the delivery.         *)
HandlerOk(c) ==
    /\ pc[c] = "handler"
    /\ trace' = Append2(trace, QueueOf(c), <<"ok", cur[c].rc>>)
    /\ pc' = [pc EXCEPT ![c] = "idle"]
    /\ cur' = [cur EXCEPT ![c] = NoMsg]
    /\ UNCHANGED <<extVars, pipeVars, queue, dlq, seen, maxRetries, published, stops>>

(* The handler raises: message.process rejects the delivery with           *)
(* requeue=False (the queue has no dead-letter argument, so the broker     *)
(* discards it), then the except branch picks retry or dead-letter.        *)
HandlerFail(c) ==
    /\ pc[c] = "handler"
    /\ trace' = Append2(trace, QueueOf(c), <<"fail", cur[c].rc>>)
    /\ pc' = [pc EXCEPT ![c] =
                IF RetriesLeft(cur[c].rc, maxRetries[QueueOf(c)]) THEN "sleep" ELSE "to_dlq"]
    /\ UNCHANGED <<extVars, pipeVars, queue, dlq, seen, maxRetries, cur, published, stops>>

(* await asyncio.sleep(delay); await _republish_for_retry(message,         *)
(* retry_count + 1): the same body, on the main exchange, with the         *)
(* original routing key.                                                   *)
Republish(c) ==
    /\ pc[c] = "sleep"
    /\ queue' = Route(queue, RoutingKey, SameBody(cur[c], cur[c].rc + 1, FALSE))
    /\ trace' = Append2(Append2(trace, QueueOf(c), <<"sleep", RetryDelay(cur[c].rc), cur[c].bad>>),
                         QueueOf(c), <<"repub", cur[c].rc + 1, cur[c].bad>>)
    /\ pc' = [pc EXCEPT ![c] = "idle"]
    /\ cur' = [cur EXCEPT ![c] = NoMsg]
    /\ UNCHANGED <<extVars, pipeVars, dlq, seen, maxRetries, published, stops>>

(* await _route_to_dlq(message): the same body on the dead-letter exchange *)
(* with x-final-failure set, then the callback ends.                       *)
RouteToDlq(c) ==
    /\ pc[c] = "to_dlq"
    /\ dlq' = Route(dlq, RoutingKey, SameBody(cur[c], cur[c].rc, TRUE))
    /\ trace' = Append2(trace, QueueOf(c), <<"dlx", cur[c].rc, cur[c].bad>>)
    /\ pc' = [pc EXCEPT ![c] = "idle"]
    /\ cur' = [cur EXCEPT ![c] = NoMsg]
    /\ UNCHANGED <<extVars, pipeVars, queue, seen, maxRetries, published, stops>>

(* The consumer process stops (or its connection closes) and is restarted  *)
(* with the same idempotency store: an unacknowledged delivery goes back   *)
(* to the head of the queue; one already rejected is gone with the         *)
(* callback that held it.                                                  *)
Stop(c) ==
    /\ stops < MaxStops
    /\ pc[c] \in {"is_seen", "mark_seen", "handler", "sleep", "to_dlq"}
    /\ stops' = stops + 1
    /\ queue' = IF pc[c] \in {"is_seen", "mark_seen", "handler"}
                THEN [queue EXCEPT ![QueueOf(c)] = <<cur[c]>> \o @]
                ELSE queue
    /\ trace' = Append2(trace, QueueOf(c), <<"stop", cur[c].rc>>)
    /\ pc' = [pc EXCEPT ![c] = "idle"]
    /\ cur' = [cur EXCEPT ![c] = NoMsg]
    /\ UNCHANGED <<extVars, pipeVars, dlq, seen, maxRetries, published>>

(* A body that is not JSON, or not a valid envelope (unknown event_type,   *)
(* missing field): json.loads / model_validate raise inside                *)
(* message.process, before the idempotency lookup and the handler; the     *)
(* except branch is the one of a handler failure.                          *)
Invalid(c) ==
    /\ pc[c] = "is_seen"
    /\ cur[c].bad
    /\ trace' = Append2(trace, QueueOf(c), <<"invalid", cur[c].rc, cur[c].bad>>)
    /\ pc' = [pc EXCEPT ![c] =
                IF RetriesLeft(cur[c].rc, maxRetries[QueueOf(c)]) THEN "sleep" ELSE "to_dlq"]
    /\ UNCHANGED <<extVars, pipeVars, queue, dlq, seen, maxRetries, cur, published, stops>>

(* A producer puts a malformed body on the exchange under the routing key. *)
PublishMalformed ==
    /\ Len(SelectSeq(trace["producer"], LAMBDA e : e[1] = "malformed")) < MaxMalformed
    /\ queue' = Route(queue, RoutingKey, Malformed(Message("unparsed", 0, FALSE)))
    /\ trace' = Append2(trace, "producer", <<"malformed", 0, TRUE>>)
    /\ UNCHANGED <<extVars, pipeVars, dlq, seen, maxRetries, pc, cur, published, stops>>

OnMessage(c) ==
    \/ Receive(c)
    \/ IsSeen(c)
    \/ MarkSeen(c)
    \/ HandlerOk(c)
    \/ HandlerFail(c)
    \/ Republish(c)
    \/ RouteToDlq(c)

----------------------------------------------------------------------------
(* Part II: planner, developer, QA and the Memory service                  *)

Tasks == 1..MaxTasks

\* What the developer's LLM may return for a task: Python that ruff accepts,
\* Python that ruff reports issues on, code holding the literal eval( , and
\* code with both.
Codes == {"clean", "lint", "eval", "lint_eval"}

DevMaxRetries == 3

QaMaxRetries == 3

NoRow == [status |-> "none", code |-> "", qa_attempt |-> 0]

\* MemoryStore.update_task: upsert of one row. qa is the optional
\* qa_attempt argument: {} for None, {n} for n.
UpdateTask(rows, t, status, code, qa) ==
    IF rows[t].status # "none"
    THEN [rows EXCEPT ![t] =
            [status |-> status,
             code |-> IF code # "" THEN code ELSE @.code,
             qa_attempt |-> IF qa # {} THEN CHOOSE n \in qa : TRUE ELSE @.qa_attempt]]
    ELSE [rows EXCEPT ![t] =
            [status |-> status,
             code |-> code,
             qa_attempt |-> IF qa # {} THEN CHOOSE n \in qa : TRUE ELSE 0]]

\* POST /tasks: UpdateTaskRequest has the fields task_id, plan_id, status,
\* file_path and code only, so a qa_attempt (or repo_url) in the body is
\* dropped and update_task is called without it.
PostTasks(rows, t, status, code, qa) == UpdateTask(rows, t, status, code, {})

\* GET /events?event_type=...: list_events takes event_type and limit only,
\* so the plan_id of the query is not applied.
GetEvents(log, type) == SelectSeq(log, LAMBDA r : r.type = type)

\* POST /events -> store_event: every event built has a fresh event_id, so
\* the row is always new.
StoreEvent(log, type, t) == Append(log, [type |-> type, task |-> t])

Event(type, t, attempt, issues, code) ==
    [type |-> type, task |-> t, attempt |-> attempt, issues |-> issues, code |-> code]

\* The envelope's idempotency_key is a hash of event_type and payload; the
\* pair of both stands for it.
TaskAssignedMsg(t, issues) ==
    [key |-> <<"task.assigned", t, issues>>, rc |-> 0, task |-> t, issues |-> issues]

CodeGeneratedMsg(t, code, attempt) ==
    [key |-> <<"code.generated", t, code, attempt>>, rc |-> 0,
     task |-> t, code |-> code, attempt |-> attempt]

NoDelivery == [key |-> <<"none">>, rc |-> 0]

\* _run_static_lint: the python_lint tool's issues for the code.
RunStaticLint(code) == IF code \in {"lint", "lint_eval"} THEN {"ruff"} ELSE {}

\* reviewer._static_check: the DANGEROUS_PATTERNS found in the code.
StaticCheck(code) == IF code \in {"eval", "lint_eval"} THEN {"eval("} ELSE {}

ReviewResult(passed, issues) == [tag |-> "ReviewResult", passed |-> passed, issues |-> issues]

\* reviewer._llm_review: one generate_text call, parsed; a FAIL without
\* issues gets a synthetic one. Returns (result, prompt_tokens, completion_tokens).
LlmReview(verdict) ==
    [tag |-> "tuple",
     first |-> ReviewResult(verdict = "PASS", IF verdict = "PASS" THEN {} ELSE {"llm"}),
     llm |-> TRUE]

ReviewCodeAlwaysLlm(code, verdict) == LlmReview(verdict)

\* reviewer.review_code: a dangerous pattern is an immediate FAIL without
\* the LLM; the return value is a 3-tuple in both branches.
ReviewCode(code, verdict) ==
    IF StaticCheck(code) # {}
    THEN [tag |-> "tuple", first |-> ReviewResult(FALSE, StaticCheck(code)), llm |-> FALSE]
    ELSE LlmReview(verdict)

\* The ReviewResult inside what _handle_code_review holds in `result`.
ResultOf(result) == IF result.tag = "tuple" THEN result.first ELSE result

\* Fields of the frozen dataclass QAConfig.
QAConfigFields == {"rabbitmq_url", "memory_service_url", "llm_provider", "log_level",
                   "max_qa_retries", "redis_url"}

NoResult == [tag |-> "none"]

\* The record of one finished review: its verdict, how many generate_text
\* calls it made, the events the handler published after it, the status it
\* wrote to the task row, and whether the handler raised.
QaRun(loc, out, mark, raised) ==
    [task |-> loc.msg.task, attempt |-> loc.msg.attempt, code |-> loc.msg.code,
     passed |-> ResultOf(loc.result).passed, issues |-> ResultOf(loc.result).issues,
     llmCalls |-> loc.llmCalls, out |-> out, mark |-> mark, raised |-> raised]

PipeOff ==
    /\ nTasks = 1
    /\ maxQaRetries = 0
    /\ planPc = [st |-> "off", t |-> 0]
    /\ devQ = <<>>
    /\ qaQ = <<>>
    /\ svcSeen = [s \in {"dev", "qa"} |-> {}]
    /\ svcDlq = [s \in {"dev", "qa"} |-> <<>>]
    /\ devPc = "idle"
    /\ devLoc = [msg |-> NoDelivery, payload |-> "", code |-> "", attempt |-> 0]
    /\ qaPc = "idle"
    /\ qaLoc = [msg |-> NoDelivery, result |-> NoResult, llmCalls |-> 0]
    /\ memEvents = <<>>
    /\ memTasks = [t \in Tasks |-> NoRow]
    /\ emitted = <<>>
    /\ qaRuns = <<>>

----------------------------------------------------------------------------
(* Planner: _execute_plan publishes plan.created, then one task.assigned   *)
(* per task, each followed by its POST /events (rows of these types are    *)
(* read by no handler modelled here, so the write shares the step).        *)
PlannerPlanCreated ==
    /\ planPc.st = "idle"
    /\ emitted' = Append(emitted, Event("plan.created", 0, 0, {}, ""))
    /\ memEvents' = StoreEvent(memEvents, "plan.created", 0)
    /\ planPc' = [st |-> "assign", t |-> 1]
    /\ UNCHANGED <<extVars, busVars, nTasks, maxQaRetries, devQ, qaQ, svcSeen, svcDlq, devPc, devLoc,
                   qaPc, qaLoc, memTasks, qaRuns>>

PlannerAssign ==
    /\ planPc.st = "assign"
    /\ devQ' = Append(devQ, TaskAssignedMsg(planPc.t, {}))
    /\ emitted' = Append(emitted, Event("task.assigned", planPc.t, 0, {}, ""))
    /\ memEvents' = StoreEvent(memEvents, "task.assigned", planPc.t)
    /\ planPc' = IF planPc.t < nTasks THEN [st |-> "assign", t |-> planPc.t + 1]
                                      ELSE [st |-> "done", t |-> 0]
    /\ UNCHANGED <<extVars, busVars, nTasks, maxQaRetries, qaQ, svcSeen, svcDlq, devPc, devLoc,
                   qaPc, qaLoc, memTasks, qaRuns>>

----------------------------------------------------------------------------
(* Developer: the subscription callback around _handle_task                *)

\* _on_message up to the handler call, for the single consumer of the queue.
DevReceive ==
    /\ devPc = "idle"
    /\ devQ # <<>>
    /\ devQ' = Tail(devQ)
    /\ IF StoreIsSeen(svcSeen["dev"], EffectiveKey(Head(devQ)))
       THEN UNCHANGED <<svcSeen, devPc, devLoc>>
       ELSE /\ svcSeen' = [svcSeen EXCEPT !["dev"] = StoreMarkSeen(@, EffectiveKey(Head(devQ)))]
            /\ devPc' = "check"
            /\ devLoc' = [msg |-> Head(devQ), payload |-> "TaskAssignedPayload",
                          code |-> "", attempt |-> 0]
    /\ UNCHANGED <<extVars, busVars, nTasks, maxQaRetries, planPc, qaQ, svcDlq, qaPc, qaLoc,
                   memEvents, memTasks, emitted, qaRuns>>

\* The idempotency pre-check: GET /events for code.generated; return if one
\* carries this task_id. The loop variable is named `payload` too, so after
\* a non-empty loop without a match `payload` holds the last event's dict.
DevCheckExisting ==
    /\ devPc = "check"
    /\ LET evs == GetEvents(memEvents, "code.generated") IN
       IF \E i \in DOMAIN evs : evs[i].task = devLoc.msg.task
       THEN /\ devPc' = "idle"
            /\ devLoc' = [devLoc EXCEPT !.msg = NoDelivery]
       ELSE /\ devPc' = "in_progress"
            /\ devLoc' = [devLoc EXCEPT !.payload =
                            IF evs = <<>> THEN "TaskAssignedPayload" ELSE "dict"]
    /\ UNCHANGED <<extVars, busVars, nTasks, maxQaRetries, planPc, devQ, qaQ, svcSeen, svcDlq, qaPc,
                   qaLoc, memEvents, memTasks, emitted, qaRuns>>

\* await _update_task_state(task_id, plan_id, "in_progress")
DevInProgress ==
    /\ devPc = "in_progress"
    /\ memTasks' = PostTasks(memTasks, devLoc.msg.task, "in_progress", "", {})
    /\ devPc' = "generate"
    /\ UNCHANGED <<extVars, busVars, nTasks, maxQaRetries, planPc, devQ, qaQ, svcSeen, svcDlq, devLoc,
                   qaPc, qaLoc, memEvents, emitted, qaRuns>>

\* generate_code(..., plan_reasoning=payload.plan_reasoning, ...): raises
\* AttributeError when `payload` is a dict; else the LLM returns code and
\* current_attempt is read from GET /tasks.
DevGenerate ==
    /\ devPc = "generate"
    /\ IF devLoc.payload = "dict"
       THEN /\ devPc' = IF RetriesLeft(devLoc.msg.rc, DevMaxRetries) THEN "sleep" ELSE "to_dlq"
            /\ UNCHANGED devLoc
       ELSE /\ \E code \in Codes :
                devLoc' = [devLoc EXCEPT !.code = code,
                                         !.attempt = memTasks[devLoc.msg.task].qa_attempt]
            /\ devPc' = "publish"
    /\ UNCHANGED <<extVars, busVars, nTasks, maxQaRetries, planPc, devQ, qaQ, svcSeen, svcDlq, qaPc,
                   qaLoc, memEvents, memTasks, emitted, qaRuns>>

\* await event_bus.publish(cg_event)
DevPublish ==
    /\ devPc = "publish"
    /\ qaQ' = Append(qaQ, CodeGeneratedMsg(devLoc.msg.task, devLoc.code, devLoc.attempt))
    /\ emitted' = Append(emitted, Event("code.generated", devLoc.msg.task, devLoc.attempt,
                                        {}, devLoc.code))
    /\ devPc' = "store"
    /\ UNCHANGED <<extVars, busVars, nTasks, maxQaRetries, planPc, devQ, svcSeen, svcDlq, devLoc,
                   qaPc, qaLoc, memEvents, memTasks, qaRuns>>

\* await _store_event(cg_event)
DevStore ==
    /\ devPc = "store"
    /\ memEvents' = StoreEvent(memEvents, "code.generated", devLoc.msg.task)
    /\ devPc' = "complete"
    /\ UNCHANGED <<extVars, busVars, nTasks, maxQaRetries, planPc, devQ, qaQ, svcSeen, svcDlq, devLoc,
                   qaPc, qaLoc, memTasks, emitted, qaRuns>>

\* await _update_task_state(task_id, plan_id, "completed", file_path, code,
\* repo_url); the handler returns and the delivery is acknowledged.
DevComplete ==
    /\ devPc = "complete"
    /\ memTasks' = PostTasks(memTasks, devLoc.msg.task, "completed", devLoc.code, {})
    /\ devPc' = "idle"
    /\ devLoc' = [devLoc EXCEPT !.msg = NoDelivery]
    /\ UNCHANGED <<extVars, busVars, nTasks, maxQaRetries, planPc, devQ, qaQ, svcSeen, svcDlq, qaPc,
                   qaLoc, memEvents, emitted, qaRuns>>

\* The except branch of _on_message after the handler raised.
DevRepublish ==
    /\ devPc = "sleep"
    /\ devQ' = Append(devQ, [devLoc.msg EXCEPT !.rc = @ + 1])
    /\ devPc' = "idle"
    /\ devLoc' = [devLoc EXCEPT !.msg = NoDelivery]
    /\ UNCHANGED <<extVars, busVars, nTasks, maxQaRetries, planPc, qaQ, svcSeen, svcDlq, qaPc,
                   qaLoc, memEvents, memTasks, emitted, qaRuns>>

DevRouteToDlq ==
    /\ devPc = "to_dlq"
    /\ svcDlq' = [svcDlq EXCEPT !["dev"] = Append(@, devLoc.msg)]
    /\ devPc' = "idle"
    /\ devLoc' = [devLoc EXCEPT !.msg = NoDelivery]
    /\ UNCHANGED <<extVars, busVars, nTasks, maxQaRetries, planPc, devQ, qaQ, svcSeen, qaPc,
                   qaLoc, memEvents, memTasks, emitted, qaRuns>>

----------------------------------------------------------------------------
(* QA: the subscription callback around _handle_code_review                *)

QaReceive ==
    /\ qaPc = "idle"
    /\ qaQ # <<>>
    /\ qaQ' = Tail(qaQ)
    /\ IF StoreIsSeen(svcSeen["qa"], EffectiveKey(Head(qaQ)))
       THEN UNCHANGED <<svcSeen, qaPc, qaLoc>>
       ELSE /\ svcSeen' = [svcSeen EXCEPT !["qa"] = StoreMarkSeen(@, EffectiveKey(Head(qaQ)))]
            /\ qaPc' = "lint"
            /\ qaLoc' = [msg |-> Head(qaQ), result |-> NoResult, llmCalls |-> 0]
    /\ UNCHANGED <<extVars, busVars, nTasks, maxQaRetries, planPc, devQ, svcDlq, devPc, devLoc,
                   memEvents, memTasks, emitted, qaRuns>>

\* The result _handle_code_review holds after a linter hit: a ReviewResult
\* built in place, no LLM.
LintVerdictViaLlm(code) == LlmReview("PASS")

LintVerdict(code) == ReviewResult(FALSE, RunStaticLint(code))

\* static_issues = await _run_static_lint(...); a hit is an immediate FAIL.
QaStaticLint ==
    /\ qaPc = "lint"
    /\ IF RunStaticLint(qaLoc.msg.code) # {}
       THEN /\ qaLoc' = [qaLoc EXCEPT !.result = LintVerdict(qaLoc.msg.code)]
            /\ qaPc' = "verdict"
       ELSE /\ qaPc' = "review"
            /\ UNCHANGED qaLoc
    /\ UNCHANGED <<extVars, busVars, nTasks, maxQaRetries, planPc, devQ, qaQ, svcSeen, svcDlq, devPc,
                   devLoc, memEvents, memTasks, emitted, qaRuns>>

\* result = await review_code(...): `result` is bound to the 3-tuple.
QaReview ==
    /\ qaPc = "review"
    /\ \E verdict \in {"PASS", "FAIL"} :
           qaLoc' = [qaLoc EXCEPT
                       !.result = ReviewCode(qaLoc.msg.code, verdict),
                       !.llmCalls = IF ReviewCode(qaLoc.msg.code, verdict).llm THEN @ + 1 ELSE @]
    /\ qaPc' = "verdict"
    /\ UNCHANGED <<extVars, busVars, nTasks, maxQaRetries, planPc, devQ, qaQ, svcSeen, svcDlq, devPc,
                   devLoc, memEvents, memTasks, emitted, qaRuns>>

\* Where _handle_code_review goes after the review: result.reasoning on a
\* tuple raises AttributeError; on PASS, cfg.step_delay raises it as well
\* (QAConfig has no such field); on FAIL the attempt decides.
AfterReviewNoRetryLimit(result, attempt, max) ==
    IF result.tag # "ReviewResult" THEN "raise"
    ELSE IF result.passed
         THEN (IF "step_delay" \in QAConfigFields THEN "passed" ELSE "raise")
         ELSE "retry"

AfterReview(result, attempt, max) ==
    IF result.tag # "ReviewResult" THEN "raise"
    ELSE IF result.passed
         THEN (IF "step_delay" \in QAConfigFields THEN "passed" ELSE "raise")
         ELSE (IF attempt < max THEN "retry" ELSE "failed")

QaVerdict ==
    /\ qaPc = "verdict"
    /\ LET next == AfterReview(qaLoc.result, qaLoc.msg.attempt, maxQaRetries) IN
       IF next = "raise"
       THEN /\ qaPc' = IF RetriesLeft(qaLoc.msg.rc, QaMaxRetries) THEN "sleep" ELSE "to_dlq"
            /\ qaRuns' = Append(qaRuns, QaRun(qaLoc, <<>>, "", TRUE))
       ELSE /\ qaPc' = next
            /\ UNCHANGED qaRuns
    /\ UNCHANGED <<extVars, busVars, nTasks, maxQaRetries, planPc, devQ, qaQ, svcSeen, svcDlq, devPc,
                   devLoc, qaLoc, memEvents, memTasks, emitted>>

\* _retry_task: await event_bus.publish(retry_event)
QaRetryPublish ==
    /\ qaPc = "retry"
    /\ devQ' = Append(devQ, TaskAssignedMsg(qaLoc.msg.task, qaLoc.result.issues))
    /\ emitted' = Append(emitted, Event("task.assigned", qaLoc.msg.task, qaLoc.msg.attempt,
                                        qaLoc.result.issues, ""))
    /\ qaPc' = "retry_store"
    /\ UNCHANGED <<extVars, busVars, nTasks, maxQaRetries, planPc, qaQ, svcSeen, svcDlq, devPc,
                   devLoc, qaLoc, memEvents, memTasks, qaRuns>>

\* _retry_task: await _store_event(retry_event)
QaRetryStore ==
    /\ qaPc = "retry_store"
    /\ memEvents' = StoreEvent(memEvents, "task.assigned", qaLoc.msg.task)
    /\ qaPc' = "retry_update"
    /\ UNCHANGED <<extVars, busVars, nTasks, maxQaRetries, planPc, devQ, qaQ, svcSeen, svcDlq, devPc,
                   devLoc, qaLoc, memTasks, emitted, qaRuns>>

\* _retry_task: await _update_task_state(task_id, plan_id, "qa_retry",
\* qa_attempt=original.qa_attempt + 1); the handler returns.
QaRetryUpdate ==
    /\ qaPc = "retry_update"
    /\ memTasks' = PostTasks(memTasks, qaLoc.msg.task, "qa_retry", "", {qaLoc.msg.attempt + 1})
    /\ qaRuns' = Append(qaRuns, QaRun(qaLoc, <<"task.assigned">>,
                                       memTasks'[qaLoc.msg.task].status, FALSE))
    /\ qaPc' = "idle"
    /\ qaLoc' = [msg |-> NoDelivery, result |-> NoResult, llmCalls |-> 0]
    /\ UNCHANGED <<extVars, busVars, nTasks, maxQaRetries, planPc, devQ, qaQ, svcSeen, svcDlq, devPc,
                   devLoc, memEvents, emitted>>

\* Retries exhausted: await event_bus.publish(fail_event)
QaFailedPublish ==
    /\ qaPc = "failed"
    /\ emitted' = Append(emitted, Event("qa.failed", qaLoc.msg.task, qaLoc.msg.attempt,
                                        qaLoc.result.issues, qaLoc.msg.code))
    /\ qaPc' = "failed_store"
    /\ UNCHANGED <<extVars, busVars, nTasks, maxQaRetries, planPc, devQ, qaQ, svcSeen, svcDlq, devPc,
                   devLoc, qaLoc, memEvents, memTasks, qaRuns>>

\* await _store_event(fail_event)
QaFailedStore ==
    /\ qaPc = "failed_store"
    /\ memEvents' = StoreEvent(memEvents, "qa.failed", qaLoc.msg.task)
    /\ qaPc' = "failed_update"
    /\ UNCHANGED <<extVars, busVars, nTasks, maxQaRetries, planPc, devQ, qaQ, svcSeen, svcDlq, devPc,
                   devLoc, qaLoc, memTasks, emitted, qaRuns>>

\* await _update_task_state(task_id, plan_id, "qa_failed"); the handler returns.
QaFailedUpdate ==
    /\ qaPc = "failed_update"
    /\ memTasks' = PostTasks(memTasks, qaLoc.msg.task, "qa_failed", "", {})
    /\ qaRuns' = Append(qaRuns, QaRun(qaLoc, <<"qa.failed">>,
                                       memTasks'[qaLoc.msg.task].status, FALSE))
    /\ qaPc' = "idle"
    /\ qaLoc' = [msg |-> NoDelivery, result |-> NoResult, llmCalls |-> 0]
    /\ UNCHANGED <<extVars, busVars, nTasks, maxQaRetries, planPc, devQ, qaQ, svcSeen, svcDlq, devPc,
                   devLoc, memEvents, emitted>>

\* The except branch of _on_message after the handler raised.
QaRepublish ==
    /\ qaPc = "sleep"
    /\ qaQ' = Append(qaQ, [qaLoc.msg EXCEPT !.rc = @ + 1])
    /\ qaPc' = "idle"
    /\ qaLoc' = [msg |-> NoDelivery, result |-> NoResult, llmCalls |-> 0]
    /\ UNCHANGED <<extVars, busVars, nTasks, maxQaRetries, planPc, devQ, svcSeen, svcDlq, devPc,
                   devLoc, memEvents, memTasks, emitted, qaRuns>>

QaRouteToDlq ==
    /\ qaPc = "to_dlq"
    /\ svcDlq' = [svcDlq EXCEPT !["qa"] = Append(@, qaLoc.msg)]
    /\ qaPc' = "idle"
    /\ qaLoc' = [msg |-> NoDelivery, result |-> NoResult, llmCalls |-> 0]
    /\ UNCHANGED <<extVars, busVars, nTasks, maxQaRetries, planPc, devQ, qaQ, svcSeen, devPc,
                   devLoc, memEvents, memTasks, emitted, qaRuns>>

----------------------------------------------------------------------------
(* Parts IV and V at rest (their definitions follow Part III)               *)
----------------------------------------------------------------------------

\* The concurrent requests to POST /events.
Callers == {"w1", "w2"}

\* idempotency_key: str = "" (an empty key), and the keys a body can carry.
NoKey == <<>>

NoEnvelope == [event_id |-> "", type |-> "", payload |-> "", key |-> NoKey]

\* No request to the Memory service is in progress and none was made.
MemOff ==
    /\ storePc = [w \in Callers |-> "idle"]
    /\ storeLoc = [w \in Callers |-> NoEnvelope]
    /\ storeCalls = <<>>

NoRevision == [original_plan_id |-> 0, new_plan_id |-> 0, severity |-> ""]

NoRevLoc == [rev |-> NoRevision, rc |-> 0, prompt |-> <<>>, found |-> FALSE, tasks |-> 0, left |-> 0,
             out |-> <<>>]

\* The concurrent requests to POST /plan, and the prompts they carry.
Requests == {"r1", "r2"}

PlanPrompts == {"a", "b"}

\* sha256(prompt|project_name|repo_url): one key per triple.
PlanKey(prompt, project_name, repo_url) == <<prompt, project_name, repo_url>>

PlanKeys == {PlanKey(p, "default", "") : p \in PlanPrompts}

NoEntry == [plan_id |-> 0, cached_at |-> 0]

NoRequest == [key |-> <<>>, now |-> 0]

\* The planner has just started: empty cache, no request.
PlanApiOff ==
    /\ idemCache = [k \in PlanKeys |-> NoEntry]
    /\ reqPc = [r \in Requests |-> "idle"]
    /\ reqLoc = [r \in Requests |-> NoRequest]
    /\ clock = 0
    /\ nextPlan = 0
    /\ planCalls = <<>>

NoSearch == [plan_id |-> 0, event_types |-> <<>>, limit |-> 0, result |-> <<>>, done |-> FALSE]

\* No point is indexed and no search was made.
SearchOff ==
    /\ index = <<>>
    /\ search = NoSearch

NoTaskCall == [n |-> 0, task |-> 0, status |-> "", code |-> "", qa |-> {},
               before |-> <<>>, after |-> <<>>]

\* No request to POST /tasks was made.
TasksOff == taskCall = NoTaskCall

FifoOff == fifoQ = <<>> /\ callbacks = {} /\ handled = <<>> /\ fifoSent = 0

FaultOff == writeFails = <<>>

BarOff == prRequested = <<>>

NoOutcome == [type |-> "", plan |-> 0, violations |-> 0]

NoPrompt == [outcome |-> NoOutcome, directive |-> FALSE]

NoDecision == [revision_needed |-> FALSE, severity |-> ""]

NoRepLoc == [outcome |-> NoOutcome, outcome_type |-> "", prompt |-> NoPrompt,
             decision |-> NoDecision]

\* The replanner's consumer is idle and nothing was sent to it.
ReplanOff ==
    /\ outQ = <<>>
    /\ repPc = "idle"
    /\ repLoc = NoRepLoc
    /\ repSent = 0
    /\ repRuns = <<>>

\* The planner's revision consumer is idle and nothing was sent to it.
ReviseOff ==
    /\ revQ = <<>>
    /\ revPc = "idle"
    /\ revLoc = NoRevLoc
    /\ revSent = [plans |-> 0, revisions |-> 0, suggested |-> {}, confirmed |-> <<>>, failures |-> 0]
    /\ revRuns = <<>>

----------------------------------------------------------------------------
(* Part III: security scan and the gateway's approval gate                  *)

MaxFiles == 2         \* files of a pr.requested
MaxPrRequests == 1    \* pr.requested events published to the security service
MaxSecurityApproved == 2  \* security.approved events that reach the gateway
MaxCalls == 2         \* approve / reject requests made by humans

pipeButMem == <<nTasks, maxQaRetries, planPc, devQ, qaQ, svcSeen, svcDlq, devPc, devLoc,
                qaPc, qaLoc, memTasks, emitted, qaRuns>>

\* SECURITY_RULES, in catalogue order (three of its rules).
SecurityRules == <<"hardcoded_api_key", "dangerous_eval", "path_traversal">>

FilePaths == {"a.py", "b.py"}

\* Code of a file: empty, code no rule matches, and code with both an
\* api_key literal and eval( .
SecCodes == {"", "ok", "key_eval"}

\* pattern.search(code) for the rule named r.
RuleMatches(r, code) ==
    \/ r = "dangerous_eval" /\ code = "key_eval"
    \/ r = "hardcoded_api_key" /\ code = "key_eval"

\* _scan_single_file: one violation per matching rule, in catalogue order.
\* A violation "[file_path] Rule 'name': pattern matched" is the pair.
ScanSingleFile(file_path, code) ==
    LET hits == SelectSeq(SecurityRules, LAMBDA r : RuleMatches(r, code))
    IN  [i \in 1..Len(hits) |-> <<file_path, hits[i]>>]

\* The loop of scan_files: files without code are skipped, the violations
\* of the others are appended in the order of the files.
RECURSIVE AllViolations(_)
AllViolations(files) ==
    IF files = <<>> THEN <<>>
    ELSE (IF Head(files).code = "" THEN <<>>
          ELSE ScanSingleFile(Head(files).file_path, Head(files).code))
         \o AllViolations(Tail(files))

FilesScanned(files) == Len(SelectSeq(files, LAMBDA f : f.code # ""))

ApprovedAlways(violations) == TRUE

\* approved = len(all_violations) == 0
Approved(violations) == Len(violations) = 0

\* scan_files
ScanFiles(files) ==
    [approved |-> Approved(AllViolations(files)),
     violations |-> AllViolations(files),
     files_scanned |-> FilesScanned(files)]

\* pr_context of a SecurityResultPayload: the dict is empty, or the dump of
\* the pr.requested payload (never empty; its files are kept).
EmptyContext == [empty |-> TRUE, files |-> <<>>]

ContextOf(files) == [empty |-> FALSE, files |-> files]

\* SecurityResultPayload as _handle_security_scan builds it.
SecurityResultPayload(plan, result, files) ==
    [plan |-> plan, approved |-> result.approved, violations |-> result.violations,
     files_scanned |-> result.files_scanned,
     pr_context |-> IF result.approved THEN ContextOf(files) ELSE EmptyContext]

NoSec == [plan |-> 0, approved |-> FALSE, violations |-> <<>>, files_scanned |-> 0,
          pr_context |-> EmptyContext]

NoPr == [plan |-> 0, files |-> <<>>]

NoApproval == [approval_id |-> 0, plan |-> 0, decision |-> "none"]

\* An event on the bus, as the history keeps it.
GateEvent(type, plan, aid) == [type |-> type, plan |-> plan, approval_id |-> aid]

Humans == {"h1", "h2"}

GateOff ==
    /\ MemOff
    /\ ReviseOff
    /\ ReplanOff
    /\ PlanApiOff
    /\ SearchOff
    /\ TasksOff
    /\ FifoOff
    /\ FaultOff
    /\ BarOff
    /\ prQ = <<>>
    /\ secPc = "idle"
    /\ secLoc = [msg |-> NoPr, sec |-> NoSec, out |-> <<>>]
    /\ hitlQ = <<>>
    /\ gwPc = "idle"
    /\ gwLoc = [sec |-> NoSec, approval |-> NoApproval, out |-> <<>>]
    /\ pendingApprovals = << >>
    /\ nextApproval = 1
    /\ httpPc = [h \in Humans |-> "idle"]
    /\ httpLoc = [h \in Humans |-> NoApproval]
    /\ injected = [pr |-> 0, sec |-> 0]
    /\ gateEmitted = <<>>
    /\ scans = <<>>
    /\ intercepts = <<>>
    /\ calls = <<>>

Files == [file_path : FilePaths, code : SecCodes]

FileLists == UNION {[1..n -> Files] : n \in 1..MaxFiles}

\* The handler of gateway_service.hitl_approvals goes on only for an
\* approved result with a non-empty pr_context.
InterceptsAnyContext(sec) == sec.approved

Intercepts(sec) == sec.approved /\ ~sec.pr_context.empty

\* _pending_approvals.get(approval_id)
PendingGet(p, id) == IF id \in DOMAIN p THEN p[id] ELSE NoApproval

FoundAlways(approval) == TRUE

\* `if not approval` is false
Found(approval) == approval # NoApproval

PendingKeep(p, id) == p

\* _pending_approvals.pop(approval_id, None)
PendingPop(p, id) == [i \in DOMAIN p \ {id} |-> p[i]]

\* _pending_approvals[approval.approval_id] = approval
PendingAdd(p, approval) == (approval.approval_id :> approval) @@ p

----------------------------------------------------------------------------
(* Security service: the callback of security_service.pr_requests          *)

\* A pr.requested reaches the queue (QA's barrier, or any producer).
PublishPrRequested ==
    /\ injected.pr < MaxPrRequests
    /\ \E files \in FileLists :
           prQ' = Append(prQ, [plan |-> injected.pr + 1, files |-> files])
    /\ injected' = [injected EXCEPT !.pr = @ + 1]
    /\ UNCHANGED <<gateOthers, pipeVars, secPc, secLoc, hitlQ, gwPc, gwLoc, pendingApprovals,
                   nextApproval, httpPc, httpLoc, gateEmitted, scans, intercepts, calls>>

\* _handle_security_scan up to its first await: scan_files and the payload.
SecReceive ==
    /\ secPc = "idle"
    /\ prQ # <<>>
    /\ prQ' = Tail(prQ)
    /\ secLoc' = [msg |-> Head(prQ),
                  sec |-> SecurityResultPayload(Head(prQ).plan, ScanFiles(Head(prQ).files),
                                                Head(prQ).files),
                  out |-> <<>>]
    /\ secPc' = "publish"
    /\ UNCHANGED <<gateOthers, pipeVars, hitlQ, gwPc, gwLoc, pendingApprovals, nextApproval,
                   httpPc, httpLoc, injected, gateEmitted, scans, intercepts, calls>>

SecEventType(sec) == IF sec.approved THEN "security.approved" ELSE "security.blocked"

\* event_bus.publish(approved_event | blocked_event): the hitl queue is
\* bound to security.approved only.
SecPublish ==
    /\ secPc = "publish"
    /\ gateEmitted' = Append(gateEmitted, GateEvent(SecEventType(secLoc.sec), secLoc.sec.plan, 0))
    /\ hitlQ' = IF SecEventType(secLoc.sec) = "security.approved"
                THEN Append(hitlQ, secLoc.sec) ELSE hitlQ
    /\ secLoc' = [secLoc EXCEPT !.out = Append(@, SecEventType(secLoc.sec))]
    /\ secPc' = "store"
    /\ UNCHANGED <<gateOthers, pipeVars, prQ, gwPc, gwLoc, pendingApprovals, nextApproval,
                   httpPc, httpLoc, injected, scans, intercepts, calls>>

\* _store_event, then the handler returns.
SecStore ==
    /\ secPc = "store"
    /\ memEvents' = StoreEvent(memEvents, SecEventType(secLoc.sec), 0)
    /\ scans' = Append(scans, [plan |-> secLoc.sec.plan, approved |-> secLoc.sec.approved,
                               violations |-> secLoc.sec.violations,
                               files_scanned |-> secLoc.sec.files_scanned,
                               pr_context |-> secLoc.sec.pr_context, out |-> secLoc.out])
    /\ secLoc' = [msg |-> NoPr, sec |-> NoSec, out |-> <<>>]
    /\ secPc' = "idle"
    /\ UNCHANGED <<gateOthers, pipeButMem, prQ, hitlQ, gwPc, gwLoc, pendingApprovals, nextApproval,
                   httpPc, httpLoc, injected, gateEmitted, intercepts, calls>>

----------------------------------------------------------------------------
(* Gateway: the interceptor of security.approved                           *)

\* A security.approved reaches the queue: the security service's (approved,
\* with the pr.requested payload as pr_context) or another producer's.
PublishSecurityApproved ==
    /\ injected.sec < MaxSecurityApproved
    /\ \E approved \in BOOLEAN, empty \in BOOLEAN :
           hitlQ' = Append(hitlQ, [plan |-> injected.sec + 1, approved |-> approved,
                                   violations |-> <<>>, files_scanned |-> 0,
                                   pr_context |-> IF empty THEN EmptyContext
                                                           ELSE ContextOf(<<>>)])
    /\ gateEmitted' = Append(gateEmitted,
                             GateEvent("security.approved", injected.sec + 1, 0))
    /\ injected' = [injected EXCEPT !.sec = @ + 1]
    /\ UNCHANGED <<gateOthers, pipeVars, prQ, secPc, secLoc, gwPc, gwLoc, pendingApprovals,
                   nextApproval, httpPc, httpLoc, scans, intercepts, calls>>

\* handler: validate, `if not sec.approved or not sec.pr_context: return`.
GwReceive ==
    /\ gwPc = "idle"
    /\ hitlQ # <<>>
    /\ hitlQ' = Tail(hitlQ)
    /\ IF Intercepts(Head(hitlQ))
       THEN /\ gwLoc' = [sec |-> Head(hitlQ), approval |-> NoApproval, out |-> <<>>]
            /\ gwPc' = "conclusion"
            /\ UNCHANGED intercepts
       ELSE /\ intercepts' = Append(intercepts, [sec |-> Head(hitlQ), out |-> <<>>,
                                                 added |-> {}])
            /\ UNCHANGED <<gwLoc, gwPc>>
    /\ UNCHANGED <<gateOthers, pipeVars, prQ, secPc, secLoc, pendingApprovals, nextApproval,
                   httpPc, httpLoc, injected, gateEmitted, scans, calls>>

\* event_bus.publish(conclusion_event)
GwConclusion ==
    /\ gwPc = "conclusion"
    /\ gateEmitted' = Append(gateEmitted, GateEvent("pipeline.conclusion", gwLoc.sec.plan, 0))
    /\ gwLoc' = [gwLoc EXCEPT !.out = Append(@, "pipeline.conclusion")]
    /\ gwPc' = "store"
    /\ UNCHANGED <<gateOthers, pipeVars, prQ, secPc, secLoc, hitlQ, pendingApprovals,
                   nextApproval, httpPc, httpLoc, injected, scans, intercepts, calls>>

\* POST /events of the conclusion, then (no await in between) the approval
\* is built with a fresh approval_id and put into _pending_approvals.
GwStoreConclusion ==
    /\ gwPc = "store"
    /\ memEvents' = StoreEvent(memEvents, "pipeline.conclusion", 0)
    /\ gwLoc' = [gwLoc EXCEPT !.approval = [approval_id |-> nextApproval,
                                            plan |-> gwLoc.sec.plan, decision |-> "none"]]
    /\ pendingApprovals' = PendingAdd(pendingApprovals, gwLoc'.approval)
    /\ nextApproval' = nextApproval + 1
    /\ gwPc' = "pending"
    /\ UNCHANGED <<gateOthers, pipeButMem, prQ, secPc, secLoc, hitlQ, httpPc, httpLoc,
                   injected, gateEmitted, scans, intercepts, calls>>

\* event_bus.publish(pending_event), the websocket broadcast, return.
GwPendingPublish ==
    /\ gwPc = "pending"
    /\ gateEmitted' = Append(gateEmitted, GateEvent("pr.pending_approval", gwLoc.sec.plan,
                                                    gwLoc.approval.approval_id))
    /\ intercepts' = Append(intercepts,
                            [sec |-> gwLoc.sec,
                             out |-> Append(gwLoc.out, "pr.pending_approval"),
                             added |-> {gwLoc.approval.approval_id}])
    /\ gwLoc' = [sec |-> NoSec, approval |-> NoApproval, out |-> <<>>]
    /\ gwPc' = "idle"
    /\ UNCHANGED <<gateOthers, pipeVars, prQ, secPc, secLoc, hitlQ, pendingApprovals,
                   nextApproval, httpPc, httpLoc, injected, scans, calls>>

----------------------------------------------------------------------------
(* Gateway: POST /api/approvals/{approval_id}/approve and .../reject       *)

DecisionEventType(decision) ==
    IF decision = "approved" THEN "pr.human_approved" ELSE "pr.human_rejected"

\* approve_pr / reject_pr up to the first await: get, 404 if absent, else
\* set the decision and pop the entry.
Decide(h, decision, id) ==
    /\ httpPc[h] = "idle"
    /\ Len(calls) < MaxCalls
    /\ IF Found(PendingGet(pendingApprovals, id))
       THEN /\ pendingApprovals' = PendingPop(pendingApprovals, id)
            /\ httpLoc' = [httpLoc EXCEPT ![h] =
                              [PendingGet(pendingApprovals, id) EXCEPT
                                  !.approval_id = id, !.decision = decision]]
            /\ httpPc' = [httpPc EXCEPT ![h] = "publish"]
       ELSE UNCHANGED <<pendingApprovals, httpLoc, httpPc>>
    /\ calls' = Append(calls,
                       [decision |-> decision, approval_id |-> id,
                        status |-> IF Found(PendingGet(pendingApprovals, id)) THEN 200 ELSE 404,
                        before |-> DOMAIN pendingApprovals,
                        after |-> DOMAIN pendingApprovals'])
    /\ UNCHANGED <<gateOthers, pipeVars, prQ, secPc, secLoc, hitlQ, gwPc, gwLoc, nextApproval,
                   injected, gateEmitted, scans, intercepts>>

ApprovePr(h) == \E id \in 0..(nextApproval - 1) : Decide(h, "approved", id)

RejectPr(h) == \E id \in 0..(nextApproval - 1) : Decide(h, "rejected", id)

\* event_bus.publish(event), the broadcasts, and the 200 response.
DecidePublish(h) ==
    /\ httpPc[h] = "publish"
    /\ gateEmitted' = Append(gateEmitted,
                             GateEvent(DecisionEventType(httpLoc[h].decision),
                                       httpLoc[h].plan, httpLoc[h].approval_id))
    /\ httpPc' = [httpPc EXCEPT ![h] = "idle"]
    /\ httpLoc' = [httpLoc EXCEPT ![h] = NoApproval]
    /\ UNCHANGED <<gateOthers, pipeVars, prQ, secPc, secLoc, hitlQ, gwPc, gwLoc,
                   pendingApprovals, nextApproval, injected, scans, intercepts, calls>>

\* event_bus.publish(event) raises (the broker is unreachable or refuses
\* the publish): the exception leaves approve_pr / reject_pr, the request
\* is answered 500 and nothing puts the popped entry back.
DecidePublishFails(h) ==
    /\ httpPc[h] = "publish"
    /\ httpPc' = [httpPc EXCEPT ![h] = "idle"]
    /\ httpLoc' = [httpLoc EXCEPT ![h] = NoApproval]
    /\ UNCHANGED <<gateOthers, pipeVars, prQ, secPc, secLoc, hitlQ, gwPc, gwLoc,
                   pendingApprovals, nextApproval, injected, gateEmitted, scans, intercepts,
                   calls>>


----------------------------------------------------------------------------
(* Part IV: the Memory service's event log                                  *)
----------------------------------------------------------------------------

\* Requests to POST /events over one behaviour.
MaxStoreCalls == 3

EventIds == {"e1", "e2"}

StoredTypes == {"plan.created"}

Payloads == {"pa", "pb"}

\* sha256(event_type + ":" + _stable_hash(payload)): a function of the type
\* and of the payload's canonical JSON, and of nothing else.
Hash(type, payload) == <<"sha256", type, payload>>

\* A key that is not the hash of any type and payload.
ForeignKey == <<"k">>

\* The keys a request body can carry for this type and payload: none, the
\* one an EventBus producer computed, or any other string.
SuppliedKeys(type, payload) == {NoKey, Hash(type, payload), ForeignKey}

\* BaseEvent(...) followed by model_post_init: the key is computed only
\* when the one supplied is empty; a supplied key is kept as it is.
BaseEventInit(id, type, payload, key) ==
    [event_id |-> id, type |-> type, payload |-> payload,
     key |-> IF key = NoKey THEN Hash(type, payload) ELSE key]

\* select(EventLog).where(EventLog.event_id == event.event_id)
Existing(log, id) == \E i \in DOMAIN log : log[i].event_id = id

\* EventLog(event_id=..., event_type=..., idempotency_key=..., payload=...)
EventLogRow(e) ==
    [type |-> e.type, task |-> 0, event_id |-> e.event_id, key |-> e.key,
     payload |-> e.payload]

StoreCall(e, existed, indexing, result) ==
    [event |-> e, existed |-> existed, index |-> indexing, result |-> result]

\* What _index_event_for_search can do: succeed, or raise from the
\* embedding call or from the vector upsert.
IndexOutcomes == {"indexed", "failed"}

IndexFailureRaises(outcome) == IF outcome = "failed" THEN "error" ELSE "true"

\* try: await self._index_event_for_search(event) / except Exception: log;
\* then return True.
AfterIndex(outcome) == "true"

Started == Len(storeCalls) + Cardinality({w \in Callers : storePc[w] # "idle"})

\* POST /events up to store_event's SELECT: the envelope is rebuilt from
\* the body, and a row with its event_id makes store_event return False.
PostEvents(w) ==
    /\ storePc[w] = "idle"
    /\ Started < MaxStoreCalls
    /\ \E id \in EventIds, type \in StoredTypes, payload \in Payloads :
         \E key \in SuppliedKeys(type, payload) :
           LET e == BaseEventInit(id, type, payload, key) IN
             IF Existing(memEvents, id)
               THEN /\ storeCalls' = Append(storeCalls, StoreCall(e, TRUE, "none", "false"))
                    /\ UNCHANGED <<storePc, storeLoc>>
               ELSE /\ storePc' = [storePc EXCEPT ![w] = "commit"]
                    /\ storeLoc' = [storeLoc EXCEPT ![w] = e]
                    /\ UNCHANGED storeCalls
    /\ UNCHANGED <<memOthers, pipeVars>>

\* session.add(row); await session.commit(): event_id is unique in the
\* table, so the commit of a second row with the same event_id raises and
\* the request fails; otherwise the row is inserted, the event is indexed
\* for semantic search (which may fail) and the result is True.
StoreCommit(w) ==
    /\ storePc[w] = "commit"
    /\ IF Existing(memEvents, storeLoc[w].event_id)
         THEN /\ storeCalls' = Append(storeCalls,
                                       StoreCall(storeLoc[w], FALSE, "none", "error"))
              /\ UNCHANGED memEvents
         ELSE /\ memEvents' = Append(memEvents, EventLogRow(storeLoc[w]))
              /\ \E outcome \in IndexOutcomes :
                   storeCalls' = Append(storeCalls,
                                        StoreCall(storeLoc[w], FALSE, outcome,
                                                  AfterIndex(outcome)))
    /\ storePc' = [storePc EXCEPT ![w] = "idle"]
    /\ storeLoc' = [storeLoc EXCEPT ![w] = NoEnvelope]
    /\ UNCHANGED <<memOthers, pipeButMem>>

----------------------------------------------------------------------------
(* Part V: the planner's consumer of plan.revision_suggested                *)
----------------------------------------------------------------------------

MaxPlans == 2       \* plans executed before any revision
MaxRevisions == 1   \* plan.revision_suggested events published
MaxConfirms == 1    \* requests to POST /api/replan
MaxRevFailures == 3 \* publishes of the planner that the broker refuses

\* DEFAULT_MSG_MAX_RETRIES, the max_retries of the planner's subscriptions.
DefaultMsgMaxRetries == 3

\* Prompts as sequences of tokens: empty, blank, and one with a word.
Prompts == {<<>>, <<" ">>, <<"build">>}

\* str.strip(), as far as the handler's test `not original_prompt` sees it.
Strip(p) == IF \A i \in DOMAIN p : p[i] = " " THEN <<>> ELSE p

\* original prompt, "---", the replanner's note.
Augmented(p) == Strip(p) \o <<"---", "revision">>

Severities == {"", "low", "medium", "high", "critical", "HIGH"}

\* (payload.severity or "medium").lower()
Severity(sev) ==
    IF sev = "" THEN "medium" ELSE IF sev = "HIGH" THEN "high" ELSE sev

Replans(sev) == Severity(sev) \in {"high", "critical"}

\* The replanner's freshly generated new_plan_id: no plan has it yet.
NewPlanId(n) == MaxPlans + n

PlanCreatedRow(plan, prompt) ==
    [type |-> "plan.created", task |-> 0, plan |-> plan, prompt |-> prompt]

TaskAssignedRow(plan, t) ==
    [type |-> "task.assigned", task |-> t, plan |-> plan, prompt |-> <<>>]

\* order_by(EventLog.id.desc()).limit(limit): the newest rows first.
Latest(rows, limit) ==
    [i \in 1..(IF Len(rows) < limit THEN Len(rows) ELSE limit) |-> rows[Len(rows) + 1 - i]]

\* GET /events?event_type=..&plan_id=..&limit=..: list_events takes
\* event_type and limit only, so plan_id does not filter.
ListEvents(log, type, plan, limit) == Latest(GetEvents(log, type), limit)

\* _fetch_original_plan_prompt: the prompt of events[0], stripped, or "".
FetchOriginalPlanPrompt(log, plan) ==
    LET events == ListEvents(log, "plan.created", plan, 1) IN
      IF events = <<>> THEN <<>> ELSE Strip(events[1].prompt)

\* A plan.created of this plan is in the event log.
OriginalInMemory(log, plan) ==
    \E i \in DOMAIN log : log[i].type = "plan.created" /\ log[i].plan = plan

\* An event the planner published: task is the task of a task.assigned,
\* tasks the length of payload.tasks of a plan.created.
RevOut(type, plan, task, tasks) == [type |-> type, plan |-> plan, task |-> task, tasks |-> tasks]

PlanCreatedOut(plan, n) == RevOut("plan.created", plan, 0, n)

TaskAssignedNoPlan(plan, spec) == RevOut("task.assigned", 0, spec, 0)

\* TaskAssignedPayload(plan_id=plan_id, task=spec, ...)
TaskAssignedOut(plan, spec) == RevOut("task.assigned", plan, spec, 0)

\* raised: the callback ended with an exception.
RevRun(rev, found, out, raised) == [rev |-> rev, found |-> found, out |-> out, raised |-> raised]

\* A message of the queue: the payload under its x-retry-count header.
RevMsg(rev, rc) == [rev |-> rev, rc |-> rc]

\* The routing keys of queue meta_planner.plan_revisions.
RevBindings == {"plan.revision_suggested"}

\* The broker appends the event to the planner's queue if a binding matches.
RevRoute(q, type, rev) == IF type \in RevBindings THEN Append(q, RevMsg(rev, 0)) ELSE q

\* A plan request executed to its end: its plan.created is in Memory.
OriginalPlan ==
    /\ revSent.plans < MaxPlans
    /\ \E prompt \in Prompts :
         memEvents' = Append(memEvents, PlanCreatedRow(revSent.plans + 1, prompt))
    /\ revSent' = [revSent EXCEPT !.plans = @ + 1]
    /\ UNCHANGED <<revOthers, pipeButMem, revQ, revPc, revLoc, revRuns>>

\* The replanner publishes plan.revision_suggested.
SuggestRevision ==
    /\ revSent.revisions < MaxRevisions
    /\ \E orig \in 1..MaxPlans, sev \in Severities :
         LET rev == [original_plan_id |-> orig,
                     new_plan_id |-> NewPlanId(revSent.revisions + 1),
                     severity |-> sev] IN
           /\ revQ' = RevRoute(revQ, "plan.revision_suggested", rev)
           /\ revSent' = [revSent EXCEPT !.revisions = @ + 1,
                                         !.suggested = @ \cup {rev}]
    /\ UNCHANGED <<revOthers, pipeVars, revPc, revLoc, revRuns>>

\* POST /api/replan: the gateway republishes the payload of a suggestion as
\* plan.revision_confirmed.
ConfirmReplan ==
    /\ Len(revSent.confirmed) < MaxConfirms
    /\ \E rev \in revSent.suggested :
         /\ revQ' = RevRoute(revQ, "plan.revision_confirmed", rev)
         /\ revSent' = [revSent EXCEPT !.confirmed = Append(@, rev)]
    /\ UNCHANGED <<revOthers, pipeVars, revPc, revLoc, revRuns>>

\* _on_message and handler: the retry-scoped key of a delivery is new to
\* the subscription's own store; a severity other than high or critical is
\* logged and ignored.
RevReceive ==
    /\ revPc = "idle"
    /\ revQ # <<>>
    /\ revQ' = Tail(revQ)
    /\ LET rev == Head(revQ).rev IN
         IF Replans(rev.severity)
           THEN /\ revPc' = "fetch"
                /\ revLoc' = [NoRevLoc EXCEPT !.rev = rev, !.rc = Head(revQ).rc]
                /\ UNCHANGED revRuns
           ELSE /\ revRuns' = Append(revRuns,
                      RevRun(rev, OriginalInMemory(memEvents, rev.original_plan_id), <<>>, FALSE))
                /\ UNCHANGED <<revPc, revLoc>>
    /\ UNCHANGED <<revOthers, pipeVars, revSent>>

\* _handle_plan_revision up to the test of original_prompt: without a
\* prompt the revision is skipped.
RevFetch ==
    /\ revPc = "fetch"
    /\ LET prompt == FetchOriginalPlanPrompt(memEvents, revLoc.rev.original_plan_id)
           found == OriginalInMemory(memEvents, revLoc.rev.original_plan_id) IN
         IF prompt = <<>>
           THEN /\ revRuns' = Append(revRuns, RevRun(revLoc.rev, found, <<>>, FALSE))
                /\ revPc' = "idle"
                /\ revLoc' = NoRevLoc
           ELSE /\ revLoc' = [revLoc EXCEPT !.prompt = Augmented(prompt), !.found = found]
                /\ revPc' = "infer"
                /\ UNCHANGED revRuns
    /\ UNCHANGED <<revOthers, pipeVars, revQ, revSent>>

\* _infer_repo_url_for_plan: a read of the task state.
RevInferRepo ==
    /\ revPc = "infer"
    /\ revPc' = "plan"
    /\ UNCHANGED <<revOthers, pipeVars, revQ, revLoc, revSent, revRuns>>

\* _execute_plan with forced_plan_id: decompose into tasks, publish
\* plan.created under the new plan id.
RevPublishPlan ==
    /\ revPc = "plan"
    /\ \E n \in 1..MaxTasks :
         revLoc' = [revLoc EXCEPT
                      !.tasks = n,
                      !.left = n,
                      !.out = Append(@, PlanCreatedOut(revLoc.rev.new_plan_id, n))]
    /\ revPc' = "store"
    /\ UNCHANGED <<revOthers, pipeVars, revQ, revSent, revRuns>>

\* _store_event(plan_event)
RevStorePlan ==
    /\ revPc = "store"
    /\ memEvents' = Append(memEvents,
                           PlanCreatedRow(revLoc.rev.new_plan_id, revLoc.prompt))
    /\ revPc' = "assign"
    /\ UNCHANGED <<revOthers, pipeButMem, revQ, revLoc, revSent, revRuns>>

\* One turn of the loop over task_specs (left of them still to go):
\* publish and store task.assigned. After the last one the callback
\* returns.
RevAssign ==
    /\ revPc = "assign"
    /\ LET spec == revLoc.tasks - revLoc.left + 1
           out == Append(revLoc.out, TaskAssignedOut(revLoc.rev.new_plan_id, spec)) IN
         /\ memEvents' = Append(memEvents, TaskAssignedRow(revLoc.rev.new_plan_id, spec))
         /\ IF revLoc.left = 1
              THEN /\ revRuns' = Append(revRuns, RevRun(revLoc.rev, revLoc.found, out, FALSE))
                   /\ revPc' = "idle"
                   /\ revLoc' = NoRevLoc
              ELSE /\ revLoc' = [revLoc EXCEPT !.left = @ - 1, !.out = out]
                   /\ UNCHANGED <<revPc, revRuns>>
    /\ UNCHANGED <<revOthers, pipeButMem, revQ, revSent>>

\* event_bus.publish(ta_event) raises (the broker refuses the publish, the
\* channel is closed): the exception leaves _execute_plan and the handler,
\* and the except branch of _on_message picks retry or dead-letter.
RevAssignFails ==
    /\ revPc = "assign"
    /\ revSent.failures < MaxRevFailures
    /\ revSent' = [revSent EXCEPT !.failures = @ + 1]
    /\ revRuns' = Append(revRuns, RevRun(revLoc.rev, revLoc.found, revLoc.out, TRUE))
    /\ revPc' = IF RetriesLeft(revLoc.rc, DefaultMsgMaxRetries) THEN "sleep" ELSE "to_dlq"
    /\ UNCHANGED <<revOthers, pipeVars, revQ, revLoc>>

\* await asyncio.sleep(delay); _republish_for_retry(message, retry_count + 1)
RevRepublish ==
    /\ revPc = "sleep"
    /\ revQ' = Append(revQ, RevMsg(revLoc.rev, revLoc.rc + 1))
    /\ revPc' = "idle"
    /\ revLoc' = NoRevLoc
    /\ UNCHANGED <<revOthers, pipeVars, revSent, revRuns>>

\* _route_to_dlq(message)
RevRouteToDlq ==
    /\ revPc = "to_dlq"
    /\ revPc' = "idle"
    /\ revLoc' = NoRevLoc
    /\ UNCHANGED <<revOthers, pipeVars, revQ, revSent, revRuns>>

----------------------------------------------------------------------------
(* Part VI: the replanner                                                   *)
----------------------------------------------------------------------------

MaxOutcomes == 2     \* qa.failed and security.blocked events published
MaxViolations == 2   \* violations listed in a security.blocked

OutcomeTypes == {"qa.failed", "security.blocked"}

\* The severities the LLM's answer can name after .lower().
DecisionSeverities == {"low", "medium", "high", "critical"}

\* _handle_qa_failed / _handle_security_blocked: the outcome_type each hands
\* to _analyse_and_emit_revision.
OutcomeTypeOf(type) == IF type = "security.blocked" THEN "security_blocked" ELSE "qa_failed"

\* analyse_outcome's parameter outcome_type: str = "qa_failed".
DefaultOutcomeType == "qa_failed"

\* SECURITY_BLOCKED_INSTRUCTION if outcome_type == "security_blocked" else ""
SecurityInstruction(outcome_type) == outcome_type = "security_blocked"

\* REPLANNER_PROMPT.format(..., outcome_summary, security_instruction)
ReplannerPrompt(outcome, outcome_type) ==
    [outcome |-> outcome, directive |-> SecurityInstruction(outcome_type)]

\* The call in _analyse_and_emit_revision passes llm, agent_goal, plan_id,
\* outcome and memory_context: outcome_type keeps its default.
AnalyseOutcome(outcome, outcome_type) == ReplannerPrompt(outcome, DefaultOutcomeType)

RepRun(loc, out) ==
    [event |-> loc.outcome.type, plan |-> loc.outcome.plan,
     outcome_type |-> loc.outcome_type, prompt |-> loc.prompt,
     decision |-> loc.decision, out |-> out]

\* QA or the security service publishes a failing outcome.
PublishOutcome ==
    /\ repSent < MaxOutcomes
    /\ \E type \in OutcomeTypes, n \in 1..MaxViolations :
         outQ' = Append(outQ, [type |-> type, plan |-> repSent + 1,
                               violations |-> IF type = "security.blocked" THEN n ELSE 0])
    /\ repSent' = repSent + 1
    /\ UNCHANGED <<repOthers, pipeVars, repPc, repLoc, repRuns>>

\* handler: dispatch on the event type.
RepReceive ==
    /\ repPc = "idle"
    /\ outQ # <<>>
    /\ outQ' = Tail(outQ)
    /\ repLoc' = [NoRepLoc EXCEPT !.outcome = Head(outQ),
                                  !.outcome_type = OutcomeTypeOf(Head(outQ).type)]
    /\ repPc' = "analyse"
    /\ UNCHANGED <<repOthers, pipeVars, repSent, repRuns>>

\* _analyse_and_emit_revision up to the decision: the prompt is built and
\* sent, the LLM's answer parsed; without revision_needed the run ends.
RepAnalyse ==
    /\ repPc = "analyse"
    /\ \E needed \in BOOLEAN, sev \in DecisionSeverities :
         LET loc == [repLoc EXCEPT
                       !.prompt = AnalyseOutcome(repLoc.outcome, repLoc.outcome_type),
                       !.decision = [revision_needed |-> needed, severity |-> sev]] IN
           IF needed
             THEN /\ repLoc' = loc
                  /\ repPc' = "publish"
                  /\ UNCHANGED repRuns
             ELSE /\ repRuns' = Append(repRuns, RepRun(loc, <<>>))
                  /\ repPc' = "idle"
                  /\ repLoc' = NoRepLoc
    /\ UNCHANGED <<repOthers, pipeVars, outQ, repSent>>

\* event_bus.publish(plan.revision_suggested), then _store_event.
RepPublish ==
    /\ repPc = "publish"
    /\ memEvents' = StoreEvent(memEvents, "plan.revision_suggested", 0)
    /\ repRuns' = Append(repRuns, RepRun(repLoc, <<"plan.revision_suggested">>))
    /\ repPc' = "idle"
    /\ repLoc' = NoRepLoc
    /\ UNCHANGED <<repOthers, pipeButMem, outQ, repSent>>

----------------------------------------------------------------------------
(* Part VII: the planner's POST /plan                                       *)
----------------------------------------------------------------------------

MaxPlanRequests == 3   \* requests to POST /plan
MaxTicks == 3          \* steps of the clock

\* _IDEM_TTL_SECONDS, default of PLAN_IDEM_TTL_SECONDS.
IdemTtlSeconds == 30

\* One step of the clock: half a TTL.
TickSeconds == IdemTtlSeconds \div 2

\* key in _plan_idem_cache and now - cached_at < _IDEM_TTL_SECONDS
CacheHit(cache, key, now) ==
    /\ cache[key] # NoEntry
    /\ now - cache[key].cached_at < IdemTtlSeconds

PlanCall(key, now, plan, executed) ==
    [key |-> key, now |-> now, plan_id |-> plan, executed |-> executed]

PlanStarted == Len(planCalls) + Cardinality({r \in Requests : reqPc[r] # "idle"})

\* create_plan up to `await _execute_plan`: a fresh cache entry answers the
\* request; a stale one is deleted and the plan executed like on a miss.
CreatePlan(r) ==
    /\ reqPc[r] = "idle"
    /\ PlanStarted < MaxPlanRequests
    /\ \E key \in PlanKeys :
         IF CacheHit(idemCache, key, clock)
           THEN /\ planCalls' = Append(planCalls,
                                       PlanCall(key, clock, idemCache[key].plan_id, FALSE))
                /\ UNCHANGED <<idemCache, reqPc, reqLoc>>
           ELSE /\ idemCache' = [idemCache EXCEPT ![key] = NoEntry]
                /\ reqPc' = [reqPc EXCEPT ![r] = "executing"]
                /\ reqLoc' = [reqLoc EXCEPT ![r] = [key |-> key, now |-> clock]]
                /\ UNCHANGED planCalls
    /\ UNCHANGED <<planOthers, pipeVars, clock, nextPlan>>

\* _execute_plan returns with a newly generated plan_id; the result is
\* cached under the key with the `now` read when the request arrived.
PlanExecuted(r) ==
    /\ reqPc[r] = "executing"
    /\ nextPlan' = nextPlan + 1
    /\ idemCache' = [idemCache EXCEPT
                       ![reqLoc[r].key] = [plan_id |-> nextPlan + 1,
                                           cached_at |-> reqLoc[r].now]]
    /\ planCalls' = Append(planCalls,
                           PlanCall(reqLoc[r].key, reqLoc[r].now, nextPlan + 1, TRUE))
    /\ reqPc' = [reqPc EXCEPT ![r] = "idle"]
    /\ reqLoc' = [reqLoc EXCEPT ![r] = NoRequest]
    /\ UNCHANGED <<planOthers, pipeVars, clock>>

\* Time passes.
Tick ==
    /\ clock < MaxTicks * TickSeconds
    /\ clock' = clock + TickSeconds
    /\ UNCHANGED <<planOthers, pipeVars, idemCache, reqPc, reqLoc, nextPlan, planCalls>>

----------------------------------------------------------------------------
(* Part VIII: semantic search                                               *)
----------------------------------------------------------------------------

MaxPoints == 2   \* points in the index

SearchPlans == {1, 2}

SearchTypes == {"qa.failed", "security.blocked", "pipeline.conclusion"}

\* Similarity to the query and payload importance, in tenths.
BaseScores == {5, 9}

Importances == {5, 9}

\* A point of the index: its payload fields and its similarity to the query.
Points ==
    [plan_id : SearchPlans, event_type : SearchTypes, score : BaseScores,
     importance : Importances]

\* The index as the query retrieves it: by descending similarity.
Indexes ==
    {ix \in UNION {[1..n -> Points] : n \in 0..MaxPoints} :
       \A i \in DOMAIN ix : \A j \in DOMAIN ix : i < j => ix[i].score >= ix[j].score}

\* event_types as the caller gives them: up to two types.
TypeLists == {<<>>} \cup {<<t>> : t \in SearchTypes}
                    \cup {tu \in SearchTypes \X SearchTypes : tu[1] # tu[2]}

\* _build_qdrant_filter: plan_id if given; of event_types the first entry,
\* in the branch for one type and in the branch for several.
BuildQdrantFilter(plan, types) ==
    [plan_id |-> plan,
     event_type |-> IF types = <<>> THEN ""
                    ELSE IF Len(types) = 1 THEN types[1] ELSE types[1]]

\* Filter(must=conditions) applied to a point.
FilterMatches(f, p) ==
    /\ f.plan_id # 0 => p.plan_id = f.plan_id
    /\ f.event_type # "" => p.event_type = f.event_type

\* query_points(query, limit, query_filter): the first `limit` matches.
QueryPoints(ix, f, limit) ==
    LET hits == SelectSeq(ix, LAMBDA p : FilterMatches(f, p)) IN
      SubSeq(hits, 1, IF Len(hits) < limit THEN Len(hits) ELSE limit)

\* _compute_heuristic_score in thousandths, for a payload without impact,
\* timestamps or accesses: base_score * (1.0 + 0.4 * importance).
Heuristic(p) == p.score * (100 + 4 * p.importance)

\* list.sort(key=heuristic_score, reverse=True): stable.
RECURSIVE InsertScored(_, _)
InsertScored(sorted, p) ==
    IF sorted = <<>> THEN <<p>>
    ELSE IF Heuristic(Head(sorted)) >= Heuristic(p)
         THEN <<Head(sorted)>> \o InsertScored(Tail(sorted), p)
         ELSE <<p>> \o sorted

RECURSIVE SortScored(_)
SortScored(ps) ==
    IF ps = <<>> THEN <<>>
    ELSE InsertScored(SortScored(SubSeq(ps, 1, Len(ps) - 1)), ps[Len(ps)])

SemanticSearchResult(ix, plan, types, limit) ==
    SortScored(QueryPoints(ix, BuildQdrantFilter(plan, types), limit))

\* Events were indexed before the search.
IndexPoints ==
    /\ index = <<>>
    /\ ~search.done
    /\ \E ix \in Indexes \ {<<>>} : index' = ix
    /\ UNCHANGED <<searchOthers, pipeVars, search>>

\* semantic_search(query, plan_id, event_types, limit)
SemanticSearch ==
    /\ ~search.done
    /\ \E plan \in {0} \cup SearchPlans, types \in TypeLists, limit \in 1..MaxPoints :
         search' = [plan_id |-> plan, event_types |-> types, limit |-> limit,
                    result |-> SemanticSearchResult(index, plan, types, limit),
                    done |-> TRUE]
    /\ UNCHANGED <<searchOthers, pipeVars, index>>

----------------------------------------------------------------------------
(* Part IX: the task-state endpoint                                         *)
----------------------------------------------------------------------------

MaxUpdates == 2   \* requests to POST /tasks

Statuses == {"in_progress", "completed", "qa_retry", "qa_failed"}

TaskCodes == {"", "c1", "c2"}

\* The qa_attempt of a request body: absent, or a number.
QaAttempts == {{}} \cup {{n} : n \in 1..MaxUpdates}

\* POST /tasks with a body naming task_id, status, code and qa_attempt.
PostTasksCall ==
    /\ taskCall.n < MaxUpdates
    /\ \E t \in Tasks, status \in Statuses, code \in TaskCodes, qa \in QaAttempts :
         /\ memTasks' = PostTasks(memTasks, t, status, code, qa)
         /\ taskCall' = [n |-> taskCall.n + 1, task |-> t, status |-> status,
                         code |-> code, qa |-> qa, before |-> memTasks,
                         after |-> PostTasks(memTasks, t, status, code, qa)]
    /\ UNCHANGED <<taskOthers, nTasks, maxQaRetries, planPc, devQ, qaQ, svcSeen, svcDlq,
                   devPc, devLoc, qaPc, qaLoc, memEvents, emitted, qaRuns>>

----------------------------------------------------------------------------
(* Part X: deliveries of one queue to its one consumer                      *)
----------------------------------------------------------------------------

MaxFifoPublish == 3   \* messages published to the queue

FifoMaxRetries == 2   \* max_retries of the subscription

\* await self._channel.set_qos(prefetch_count=1)
PrefetchCount == 1

\* A delivery is unacknowledged from the moment the broker hands it over
\* until message.process leaves its block.
Unacked(cbs) == {cb \in cbs : cb.stage = "handler"}

CanDeliverAlways(cbs) == TRUE

\* The broker hands over the next message only while fewer than
\* prefetch_count deliveries of the consumer are unacknowledged.
CanDeliver(cbs) == Cardinality(Unacked(cbs)) < PrefetchCount

Callback(d, stage) == [id |-> d.id, rc |-> d.rc, stage |-> stage]

\* EventBus.publish of a valid event with a key of its own.
FifoPublish ==
    /\ fifoSent < MaxFifoPublish
    /\ fifoSent' = fifoSent + 1
    /\ fifoQ' = Append(fifoQ, [id |-> fifoSent + 1, rc |-> 0])
    /\ UNCHANGED <<fifoOthers, pipeVars, callbacks, handled>>

(* The broker delivers the head of the queue and aio_pika starts           *)
(* _on_message for it: the body is decoded, the retry-scoped key is new,   *)
(* it is marked seen and the handler is called.                            *)
FifoDeliver ==
    /\ fifoQ # <<>>
    /\ CanDeliver(callbacks)
    /\ callbacks' = callbacks \cup {Callback(Head(fifoQ), "handler")}
    /\ handled' = Append(handled, Head(fifoQ))
    /\ fifoQ' = Tail(fifoQ)
    /\ UNCHANGED <<fifoOthers, pipeVars, fifoSent>>

(* The handler returns: message.process acknowledges and the callback      *)
(* ends.                                                                   *)
FifoHandlerOk(cb) ==
    /\ cb \in callbacks
    /\ cb.stage = "handler"
    /\ callbacks' = callbacks \ {cb}
    /\ UNCHANGED <<fifoOthers, pipeVars, fifoQ, handled, fifoSent>>

(* The handler raises: message.process rejects the delivery on the way     *)
(* out, and the except branch goes on to the back-off sleep or to the      *)
(* dead-letter publish.                                                    *)
FifoHandlerFail(cb) ==
    /\ cb \in callbacks
    /\ cb.stage = "handler"
    /\ callbacks' = (callbacks \ {cb}) \cup
            {Callback(cb, IF RetriesLeft(cb.rc, FifoMaxRetries) THEN "sleep" ELSE "to_dlq")}
    /\ UNCHANGED <<fifoOthers, pipeVars, fifoQ, handled, fifoSent>>

(* The sleep is over: _republish_for_retry puts the body at the tail of    *)
(* the queue with x-retry-count + 1.                                       *)
FifoRepublish(cb) ==
    /\ cb \in callbacks
    /\ cb.stage = "sleep"
    /\ fifoQ' = Append(fifoQ, [id |-> cb.id, rc |-> cb.rc + 1])
    /\ callbacks' = callbacks \ {cb}
    /\ UNCHANGED <<fifoOthers, pipeVars, handled, fifoSent>>

(* _route_to_dlq: the body leaves for the dead-letter exchange.            *)
FifoRouteToDlq(cb) ==
    /\ cb \in callbacks
    /\ cb.stage = "to_dlq"
    /\ callbacks' = callbacks \ {cb}
    /\ UNCHANGED <<fifoOthers, pipeVars, fifoQ, handled, fifoSent>>

----------------------------------------------------------------------------
(* Part XI: a Memory write fails inside a handler                           *)
(* _store_event and _update_task_state of the planner, the developer, QA    *)
(* and the security service wrap their POST in try / except Exception and   *)
(* only log.                                                                *)
----------------------------------------------------------------------------

MaxWriteFailures == 1   \* Memory writes that fail

\* The bus event a write belongs to is out already.
Published(type, t) ==
    \E i \in DOMAIN emitted : emitted[i].type = type /\ emitted[i].task = t

WriteFailureRaises(next) == "sleep"

\* except Exception: logger.exception(...): the handler goes on with what
\* follows the write.
AfterWriteFailure(next) == next

WriteFailure(svc, write, t, out, next) ==
    [svc |-> svc, write |-> write, task |-> t, published |-> out, next |-> next]

\* What follows each write of _handle_task.
DevAfter(at) ==
    IF at = "in_progress" THEN "generate" ELSE IF at = "store" THEN "complete" ELSE "idle"

\* The developer's _update_task_state(in_progress), _store_event(cg_event)
\* or _update_task_state(completed) fails.
DevWriteFails ==
    /\ Len(writeFails) < MaxWriteFailures
    /\ devPc \in {"in_progress", "store", "complete"}
    /\ devPc' = AfterWriteFailure(DevAfter(devPc))
    /\ devLoc' = IF devPc' = "idle" THEN [devLoc EXCEPT !.msg = NoDelivery] ELSE devLoc
    /\ writeFails' = Append(writeFails,
            WriteFailure("dev", devPc, devLoc.msg.task,
                         Published("code.generated", devLoc.msg.task), devPc'))
    /\ UNCHANGED <<faultOthers, nTasks, maxQaRetries, planPc, devQ, qaQ, svcSeen, svcDlq,
                   qaPc, qaLoc, memEvents, memTasks, emitted, qaRuns>>

\* generate_code returned and the LLM reported token counts:
\* _store_event(tok_event) fails. metrics.tokens_used is stored, never
\* published.
DevTokensWriteFails ==
    /\ Len(writeFails) < MaxWriteFailures
    /\ devPc = "generate"
    /\ devLoc.payload # "dict"
    /\ \E code \in Codes :
         devLoc' = [devLoc EXCEPT !.code = code,
                                  !.attempt = memTasks[devLoc.msg.task].qa_attempt]
    /\ devPc' = AfterWriteFailure("publish")
    /\ writeFails' = Append(writeFails,
            WriteFailure("dev", "tokens_used", devLoc.msg.task,
                         Published("metrics.tokens_used", devLoc.msg.task), devPc'))
    /\ UNCHANGED <<faultOthers, nTasks, maxQaRetries, planPc, devQ, qaQ, svcSeen, svcDlq,
                   qaPc, qaLoc, memEvents, memTasks, emitted, qaRuns>>

\* What follows each write of _retry_task and of the qa.failed branch.
QaAfter(at) ==
    IF at = "retry_store" THEN "retry_update"
    ELSE IF at = "failed_store" THEN "failed_update" ELSE "idle"

QaEventAt(at) == IF at \in {"retry_store", "retry_update"} THEN "task.assigned" ELSE "qa.failed"

\* One of QA's _store_event / _update_task_state calls fails.
QaWriteFails ==
    /\ Len(writeFails) < MaxWriteFailures
    /\ qaPc \in {"retry_store", "retry_update", "failed_store", "failed_update"}
    /\ qaPc' = AfterWriteFailure(QaAfter(qaPc))
    /\ IF qaPc' = "idle"
         THEN /\ qaRuns' = Append(qaRuns, QaRun(qaLoc, <<QaEventAt(qaPc)>>,
                                                 memTasks[qaLoc.msg.task].status, FALSE))
              /\ qaLoc' = [msg |-> NoDelivery, result |-> NoResult, llmCalls |-> 0]
         ELSE UNCHANGED <<qaRuns, qaLoc>>
    /\ writeFails' = Append(writeFails,
            WriteFailure("qa", qaPc, qaLoc.msg.task,
                         Published(QaEventAt(qaPc), qaLoc.msg.task), qaPc'))
    /\ UNCHANGED <<faultOthers, nTasks, maxQaRetries, planPc, devQ, qaQ, svcSeen, svcDlq,
                   devPc, devLoc, memEvents, memTasks, emitted>>

\* _execute_plan: the publish of plan.created or of a task.assigned, then
\* its _store_event fails.
PlannerWriteFails ==
    /\ Len(writeFails) < MaxWriteFailures
    /\ planPc.st \in {"idle", "assign"}
    /\ LET type == IF planPc.st = "idle" THEN "plan.created" ELSE "task.assigned"
           next == IF planPc.t < nTasks THEN [st |-> "assign", t |-> planPc.t + 1]
                                        ELSE [st |-> "done", t |-> 0] IN
         /\ emitted' = Append(emitted, Event(type, planPc.t, 0, {}, ""))
         /\ devQ' = IF planPc.st = "assign" THEN Append(devQ, TaskAssignedMsg(planPc.t, {}))
                                            ELSE devQ
         /\ planPc' = [next EXCEPT !.st = AfterWriteFailure(@)]
         /\ writeFails' = Append(writeFails,
                 WriteFailure("planner", "store", planPc.t,
                              \E i \in DOMAIN emitted' :
                                  emitted'[i].type = type /\ emitted'[i].task = planPc.t,
                              planPc'.st))
    /\ UNCHANGED <<faultOthers, nTasks, maxQaRetries, qaQ, svcSeen, svcDlq, devPc, devLoc,
                   qaPc, qaLoc, memEvents, memTasks, qaRuns>>

\* The security service's _store_event fails; the handler returns.
SecWriteFails ==
    /\ Len(writeFails) < MaxWriteFailures
    /\ secPc = "store"
    /\ scans' = Append(scans, [plan |-> secLoc.sec.plan, approved |-> secLoc.sec.approved,
                               violations |-> secLoc.sec.violations,
                               files_scanned |-> secLoc.sec.files_scanned,
                               pr_context |-> secLoc.sec.pr_context, out |-> secLoc.out])
    /\ secLoc' = [msg |-> NoPr, sec |-> NoSec, out |-> <<>>]
    /\ secPc' = AfterWriteFailure("idle")
    /\ writeFails' = Append(writeFails,
            WriteFailure("security", "store", 0,
                         \E i \in DOMAIN gateEmitted :
                             /\ gateEmitted[i].type = SecEventType(secLoc.sec)
                             /\ gateEmitted[i].plan = secLoc.sec.plan,
                         secPc'))
    /\ UNCHANGED <<gateFaultOthers, pipeVars, prQ, hitlQ, gwPc, gwLoc, pendingApprovals,
                   nextApproval, httpPc, httpLoc, injected, gateEmitted, intercepts, calls>>

----------------------------------------------------------------------------
(* Part XII: the qa.passed branch of _handle_code_review and                *)
(* _check_plan_ready_for_pr                                                 *)
(* The branch is written for a review_code that returns a ReviewResult and  *)
(* a QAConfig with step_delay; with the reviewer and the config of Part II  *)
(* the handler raises before it (QaVerdict).                                *)
----------------------------------------------------------------------------

\* `if result.passed:` with the ReviewResult of a passing review in
\* `result`, and AGENT_STEP_DELAY configured.
QaVerdictPassed ==
    /\ qaPc = "verdict"
    /\ ResultOf(qaLoc.result).passed
    /\ qaPc' = "passed"
    /\ UNCHANGED <<barOthers, barVars, nTasks, maxQaRetries, planPc, devQ, qaQ, svcSeen, svcDlq,
                   devPc, devLoc, qaLoc, memEvents, memTasks, emitted, qaRuns>>

\* await event_bus.publish(qa_event); await _store_event(qa_event)
QaPassedPublish ==
    /\ qaPc = "passed"
    /\ emitted' = Append(emitted, Event("qa.passed", qaLoc.msg.task, qaLoc.msg.attempt,
                                        {}, qaLoc.msg.code))
    /\ memEvents' = StoreEvent(memEvents, "qa.passed", qaLoc.msg.task)
    /\ qaPc' = "passed_update"
    /\ UNCHANGED <<barOthers, barVars, nTasks, maxQaRetries, planPc, devQ, qaQ, svcSeen, svcDlq,
                   devPc, devLoc, qaLoc, memTasks, qaRuns>>

\* await _update_task_state(task_id, plan_id, "qa_passed")
QaPassedUpdate ==
    /\ qaPc = "passed_update"
    /\ memTasks' = PostTasks(memTasks, qaLoc.msg.task, "qa_passed", "", {})
    /\ qaPc' = "barrier"
    /\ UNCHANGED <<barOthers, barVars, nTasks, maxQaRetries, planPc, devQ, qaQ, svcSeen, svcDlq,
                   devPc, devLoc, qaLoc, memEvents, emitted, qaRuns>>

\* GET /tasks/{plan_id}: the rows of the plan.
GetTasks(rows) == {t \in Tasks : rows[t].status # "none"}

\* files = [CodeGeneratedPayload(task_id=t["task_id"], code=t["code"], ...)
\*          for t in all_tasks]
FilesOf(rows) == {[task |-> t, code |-> rows[t].code] : t \in GetTasks(rows)}

\* if not all_tasks: return; if all(t["status"] == "qa_passed" ...)
PlanReady(rows) ==
    /\ GetTasks(rows) # {}
    /\ \A t \in GetTasks(rows) : rows[t].status = "qa_passed"

\* await _check_plan_ready_for_pr(plan_id): when every row of the plan is
\* qa_passed, pr.requested is published with the rows' code and stored;
\* the handler returns.
QaBarrier ==
    /\ qaPc = "barrier"
    /\ IF PlanReady(memTasks)
         THEN /\ prRequested' = Append(prRequested, FilesOf(memTasks))
              /\ emitted' = Append(emitted, Event("pr.requested", 0, 0, {}, ""))
              /\ memEvents' = StoreEvent(memEvents, "pr.requested", 0)
         ELSE UNCHANGED <<prRequested, emitted, memEvents>>
    /\ qaRuns' = Append(qaRuns, QaRun(qaLoc, IF PlanReady(memTasks)
                                                THEN <<"qa.passed", "pr.requested">>
                                                ELSE <<"qa.passed">>,
                                       memTasks[qaLoc.msg.task].status, FALSE))
    /\ qaPc' = "idle"
    /\ qaLoc' = [msg |-> NoDelivery, result |-> NoResult, llmCalls |-> 0]
    /\ UNCHANGED <<barOthers, nTasks, maxQaRetries, planPc, devQ, qaQ, svcSeen, svcDlq,
                   devPc, devLoc, memTasks>>

----------------------------------------------------------------------------
(* Specifications *)

BusOff ==
    /\ queue = [q \in Queues |-> <<>>]
    /\ dlq = [q \in Queues |-> <<>>]
    /\ seen = [q \in Queues |-> {}]
    /\ maxRetries = [q \in Queues |-> 1]
    /\ pc = [c \in Consumers |-> "absent"]
    /\ cur = [c \in Consumers |-> NoMsg]
    /\ trace = [q \in Queues \cup {"producer"} |-> <<>>]
    /\ published = 0
    /\ stops = 0

\* The event bus alone: one consumer per queue, no stops.
Init == BusInit(Consumers \ Replicas) /\ PipeOff /\ GateOff

Next ==
    \/ Publish
    \/ \E c \in Consumers : OnMessage(c)

Spec == Init /\ [][Next]_vars

\* Two replicas competing on dev_service.tasks (no consumer on the broadcast
\* queue), and consumer stops.
InitCrash == BusInit({"dev1", "dev2"}) /\ PipeOff /\ GateOff

NextCrash ==
    \/ Publish
    \/ \E c \in Consumers : OnMessage(c)
    \/ \E c \in Consumers : Stop(c)

SpecCrash == InitCrash /\ [][NextCrash]_vars

\* One subscription alone (dev_service.tasks, one consumer) with up to
\* MaxLongRetries deliveries per message, fed valid and malformed bodies.
InitRetry ==
    /\ BusInit({"dev1"})
    /\ maxRetries["gateway_service.broadcast"] = 1
    /\ PipeOff
    /\ GateOff

NextRetry ==
    \/ Publish
    \/ PublishMalformed
    \/ \E c \in Consumers : OnMessage(c)
    \/ \E c \in Consumers : Invalid(c)

SpecRetry == InitRetry /\ [][NextRetry]_vars

\* One plan of 1..MaxTasks tasks through planner, developer and QA.
InitPipe ==
    /\ BusOff
    /\ GateOff
    /\ nTasks \in 1..MaxTasks
    /\ maxQaRetries \in 0..MaxQaRetriesLimit
    /\ planPc = [st |-> "idle", t |-> 0]
    /\ devQ = <<>>
    /\ qaQ = <<>>
    /\ svcSeen = [s \in {"dev", "qa"} |-> {}]
    /\ svcDlq = [s \in {"dev", "qa"} |-> <<>>]
    /\ devPc = "idle"
    /\ devLoc = [msg |-> NoDelivery, payload |-> "", code |-> "", attempt |-> 0]
    /\ qaPc = "idle"
    /\ qaLoc = [msg |-> NoDelivery, result |-> NoResult, llmCalls |-> 0]
    /\ memEvents = <<>>
    /\ memTasks = [t \in Tasks |-> NoRow]
    /\ emitted = <<>>
    /\ qaRuns = <<>>

NextPipe ==
    \/ PlannerPlanCreated
    \/ PlannerAssign
    \/ DevReceive
    \/ DevCheckExisting
    \/ DevInProgress
    \/ DevGenerate
    \/ DevPublish
    \/ DevStore
    \/ DevComplete
    \/ DevRepublish
    \/ DevRouteToDlq
    \/ QaReceive
    \/ QaStaticLint
    \/ QaReview
    \/ QaVerdict
    \/ QaRetryPublish
    \/ QaRetryStore
    \/ QaRetryUpdate
    \/ QaFailedPublish
    \/ QaFailedStore
    \/ QaFailedUpdate
    \/ QaRepublish
    \/ QaRouteToDlq

SpecPipe == InitPipe /\ [][NextPipe]_vars

\* The services' consumer tasks keep running: whatever step is enabled is
\* eventually taken.
SpecPipeLive == SpecPipe /\ WF_vars(NextPipe)

\* The security service scanning the pr.requested events it is sent.
InitScan == BusOff /\ PipeOff /\ GateOff

NextScan ==
    \/ PublishPrRequested
    \/ SecReceive
    \/ SecPublish
    \/ SecStore

SpecScan == InitScan /\ [][NextScan]_vars

\* The gateway's approval gate: the interceptor and the humans' requests.
InitGate == BusOff /\ PipeOff /\ GateOff

NextGate ==
    \/ PublishSecurityApproved
    \/ GwReceive
    \/ GwConclusion
    \/ GwStoreConclusion
    \/ GwPendingPublish
    \/ \E h \in Humans : ApprovePr(h)
    \/ \E h \in Humans : RejectPr(h)
    \/ \E h \in Humans : DecidePublish(h)

SpecGate == InitGate /\ [][NextGate]_vars

\* The same gate when the broker may refuse the decision's publish.
NextGateLoss ==
    \/ NextGate
    \/ \E h \in Humans : DecidePublishFails(h)

SpecGateLoss == InitGate /\ [][NextGateLoss]_vars

\* The Memory service answering concurrent requests to POST /events.
InitMem == BusOff /\ PipeOff /\ GateOff

NextMem ==
    \/ \E w \in Callers : PostEvents(w)
    \/ \E w \in Callers : StoreCommit(w)

SpecMem == InitMem /\ [][NextMem]_vars

\* The planner consuming the replanner's suggestions.
InitRevise == BusOff /\ PipeOff /\ GateOff

NextRevise ==
    \/ OriginalPlan
    \/ SuggestRevision
    \/ ConfirmReplan
    \/ RevReceive
    \/ RevFetch
    \/ RevInferRepo
    \/ RevPublishPlan
    \/ RevStorePlan
    \/ RevAssign

SpecRevise == InitRevise /\ [][NextRevise]_vars

\* The planner's consumer task runs as long as the process lives: a
\* delivered message is handled and a started callback runs to its end.
RevConsumer ==
    \/ RevReceive
    \/ RevFetch
    \/ RevInferRepo
    \/ RevPublishPlan
    \/ RevStorePlan
    \/ RevAssign

SpecReviseLive == SpecRevise /\ WF_vars(RevConsumer)

\* The planner executing revised plans, with no request to POST /api/replan.
NextExec ==
    \/ OriginalPlan
    \/ SuggestRevision
    \/ RevConsumer

SpecExec == InitRevise /\ [][NextExec]_vars

\* The same consumer when the broker may refuse the planner's publishes.
NextReviseRetry ==
    \/ NextRevise
    \/ RevAssignFails
    \/ RevRepublish
    \/ RevRouteToDlq

SpecReviseRetry == InitRevise /\ [][NextReviseRetry]_vars

\* The replanner consuming failing outcomes.
InitReplan == BusOff /\ PipeOff /\ GateOff

NextReplan ==
    \/ PublishOutcome
    \/ RepReceive
    \/ RepAnalyse
    \/ RepPublish

SpecReplan == InitReplan /\ [][NextReplan]_vars

\* The planner answering concurrent requests to POST /plan.
InitPlanApi == BusOff /\ PipeOff /\ GateOff

NextPlanApi ==
    \/ \E r \in Requests : CreatePlan(r)
    \/ \E r \in Requests : PlanExecuted(r)
    \/ Tick

SpecPlanApi == InitPlanApi /\ [][NextPlanApi]_vars

\* Searches over an index.
InitSearch == BusOff /\ PipeOff /\ GateOff

NextSearch ==
    \/ IndexPoints
    \/ SemanticSearch

SpecSearch == InitSearch /\ [][NextSearch]_vars

\* Requests to POST /tasks, one after the other.
InitTasks == BusOff /\ PipeOff /\ GateOff

NextTasks == PostTasksCall

SpecTasks == InitTasks /\ [][NextTasks]_vars

\* The pipeline with QA's qa.passed branch entered after a passing review.
NextBarrier ==
    \/ NextPipe
    \/ QaVerdictPassed
    \/ QaPassedPublish
    \/ QaPassedUpdate
    \/ QaBarrier

SpecBarrier == InitPipe /\ [][NextBarrier]_vars

\* One plan of one task through planner, developer and QA, and the
\* security service, with Memory writes that may fail.
InitFaulty == InitPipe /\ nTasks = 1 /\ maxQaRetries <= 1

\* The steps of Part II a plan of one task can take: its developer finds no
\* other task's code.generated and never raises.
NextPipeOneTask ==
    \/ PlannerPlanCreated
    \/ PlannerAssign
    \/ DevReceive
    \/ DevCheckExisting
    \/ DevInProgress
    \/ DevGenerate
    \/ DevPublish
    \/ DevStore
    \/ DevComplete
    \/ QaReceive
    \/ QaStaticLint
    \/ QaReview
    \/ QaVerdict
    \/ QaRetryPublish
    \/ QaRetryStore
    \/ QaRetryUpdate
    \/ QaFailedPublish
    \/ QaFailedStore
    \/ QaFailedUpdate
    \/ QaRepublish
    \/ QaRouteToDlq

NextFaulty ==
    \/ NextPipeOneTask
    \/ NextScan
    \/ DevWriteFails
    \/ DevTokensWriteFails
    \/ QaWriteFails
    \/ PlannerWriteFails
    \/ SecWriteFails

SpecFaulty == InitFaulty /\ [][NextFaulty]_vars

\* One queue, one consumer, callbacks running as tasks.
InitFifo == BusOff /\ PipeOff /\ GateOff

NextFifo ==
    \/ FifoPublish
    \/ FifoDeliver
    \/ \E cb \in callbacks : FifoHandlerOk(cb)
    \/ \E cb \in callbacks : FifoHandlerFail(cb)
    \/ \E cb \in callbacks : FifoRepublish(cb)
    \/ \E cb \in callbacks : FifoRouteToDlq(cb)

SpecFifo == InitFifo /\ [][NextFifo]_vars

----------------------------------------------------------------------------
(* Reading the history *)

Kind(q, kinds) == SelectSeq(trace[q], LAMBDA e : e[1] \in kinds)

Count(q, kind) == Len(Kind(q, {kind}))

\* x-retry-count of the successive handler invocations of q.
CallRcs(q) == [i \in 1..Count(q, "call") |-> Kind(q, {"call"})[i][2]]

\* ok / fail of the successive completed handler invocations of q.
Results(q) == [i \in 1..Len(Kind(q, {"ok", "fail"})) |-> Kind(q, {"ok", "fail"})[i][1]]

Active(q) == {c \in Consumers : QueueOf(c) = q /\ pc[c] # "absent"}

\* Nothing is left to do for q: no ready message, no callback in progress
\* anywhere (so no re-publish is still to come).
Settled(q) ==
    /\ published >= 1
    /\ queue[q] = <<>>
    /\ \A c \in Consumers : pc[c] \in {"idle", "absent"}
    /\ \A r \in Queues : Active(r) # {} => queue[r] = <<>>

\* q is the only subscription whose handler has failed.
OnlyFailing(q) == \A r \in Queues \ {q} : Count(r, "fail") = 0

\* No "repub" entry follows a "dlx" entry in the history of q.
NoRepublishAfterDlq(q) ==
    \A i, j \in DOMAIN trace[q] :
        (trace[q][i][1] = "dlx" /\ i < j) => trace[q][j][1] # "repub"

\* What a subscription whose handler has failed on every delivery must show:
\* at most max_retries invocations, x-retry-count 0, 1, 2, ... in order, one
\* dead-letter publish after the last failure, and all of it once settled.
RetriesThenDlq(q) ==
    /\ Count(q, "call") <= maxRetries[q]
    /\ CallRcs(q) = [i \in 1..Count(q, "call") |-> i - 1]
    /\ Count(q, "dlx") <= 1
    /\ NoRepublishAfterDlq(q)
    /\ Count(q, "dlx") = 1 =>
           /\ Count(q, "fail") = maxRetries[q]
           /\ \E i \in DOMAIN dlq[q] : dlq[q][i].final /\ dlq[q][i].key = EnvelopeKey
    /\ Settled(q) =>
           /\ Count(q, "call") = maxRetries[q]
           /\ Count(q, "dlx") = 1

----------------------------------------------------------------------------
(* C1: for any subscription with max_retries = M whose handler fails on    *)
(* every delivery of a message, the handler is invoked exactly M times,    *)
(* with x-retry-count 0..M-1; after the M-th failure the message is        *)
(* published exactly once to the dead-letter exchange with x-final-failure *)
(* set and is in dlq.<queue>, and it is never re-published to the main     *)
(* exchange afterwards.                                                    *)
C1_RetriesThenDlq ==
    \A q \in Queues : Count(q, "ok") = 0 => RetriesThenDlq(q)

\* The same, for a subscription that is the only one whose handler fails
\* (holds: the retries of another failing subscription are what breaks C1).
RetriesThenDlqAlone ==
    \A q \in Queues : (Count(q, "ok") = 0 /\ OnlyFailing(q)) => RetriesThenDlq(q)

----------------------------------------------------------------------------
(* C2: every message delivered to a subscribed queue is in the end either  *)
(* handled successfully or present in dlq.<queue>, also when the consumer  *)
(* stops at any point of the callback and is restarted with the same       *)
(* idempotency store. Stated on settled states: once nothing is left to do *)
(* for the queue, the envelope was handled successfully or is in its       *)
(* dead-letter queue.                                                      *)
C2_NeverDropped ==
    \A q \in Queues :
        (Active(q) # {} /\ Settled(q)) =>
            \/ Count(q, "ok") >= 1
            \/ \E i \in DOMAIN dlq[q] : dlq[q][i].key = EnvelopeKey

----------------------------------------------------------------------------
(* C3: when the same envelope (x-retry-count 0) is published twice and the *)
(* handlers succeed, the handler of each subscribing queue is invoked      *)
(* exactly once; the second delivery is acknowledged without invoking it.  *)
C3_DoublePublishOnce ==
    (\A r \in Queues : Count(r, "fail") = 0) =>
        \A q \in Queues :
            /\ Count(q, "call") <= 1
            /\ (published = 2 /\ Settled(q)) =>
                   /\ Count(q, "call") = 1
                   /\ Count(q, "ok") = 1
                   /\ Count(q, "skip") = 1

C3_Witness ==
    /\ published = 2
    /\ \A q \in Queues :
           /\ Settled(q)
           /\ Count(q, "ok") = 1
           /\ Count(q, "skip") = 1
           /\ Count(q, "fail") = 0

----------------------------------------------------------------------------
(* C4: two consumers sharing one IdempotencyStore that process deliveries  *)
(* with the same effective idempotency key never both invoke the handler:  *)
(* per queue, each effective key is handed to the handler at most once.    *)
C4_AtMostOneInvocationPerKey ==
    stops = 0 =>
        \A q \in Queues :
            \A i, j \in 1..Count(q, "call") :
                CallRcs(q)[i] = CallRcs(q)[j] => i = j

----------------------------------------------------------------------------
(* C5: re-published retries are not suppressed as duplicates: with         *)
(* max_retries = 3 and a handler that raises on the first two deliveries   *)
(* and succeeds on the third (the only handler that fails), the handler is *)
(* invoked exactly three times, with x-retry-count 0, 1, 2, the third      *)
(* invocation succeeds, and nothing is published to dlq.*.                 *)
FailsTwiceThenSucceeds(q) ==
    /\ maxRetries[q] = 3
    /\ OnlyFailing(q)
    /\ Len(Results(q)) >= 1 => Results(q)[1] = "fail"
    /\ Len(Results(q)) >= 2 => Results(q)[2] = "fail"
    /\ Len(Results(q)) >= 3 => Results(q)[3] = "ok"

C5_RetriesNotSuppressed ==
    \A q \in Queues :
        FailsTwiceThenSucceeds(q) =>
            /\ Count(q, "call") <= 3
            /\ CallRcs(q) = [i \in 1..Count(q, "call") |-> i - 1]
            /\ \A r \in Queues : dlq[r] = <<>>
            /\ Count(q, "dlx") = 0
            /\ Settled(q) =>
                   /\ Count(q, "call") = 3
                   /\ Results(q) = <<"fail", "fail", "ok">>

C5_Witness ==
    \E q \in Queues :
        /\ FailsTwiceThenSucceeds(q)
        /\ Settled(q)
        /\ published = 2
        /\ Results(q) = <<"fail", "fail", "ok">>

----------------------------------------------------------------------------
(* Reading the pipeline's history *)

EmittedOf(type) == SelectSeq(emitted, LAMBDA e : e.type = type)

EmittedFor(type, t) == SelectSeq(emitted, LAMBDA e : e.type = type /\ e.task = t)

RunsOf(t) == SelectSeq(qaRuns, LAMBDA r : r.task = t)

\* The plan was published in full and nothing is left to do: both queues
\* are empty and both callbacks have returned.
PipeSettled ==
    /\ planPc.st = "done"
    /\ devQ = <<>>
    /\ qaQ = <<>>
    /\ devPc = "idle"
    /\ qaPc = "idle"

\* What the deterministic pass of a review reports for the code: the
\* linter's issues, else (review_code is only reached without them) the
\* dangerous patterns.
StaticIssues(code) == IF RunStaticLint(code) # {} THEN RunStaticLint(code) ELSE StaticCheck(code)

----------------------------------------------------------------------------
(* C6: for a plan of N >= 1 tasks whose QA reviews all pass, exactly one   *)
(* pr.requested is emitted, with one file per task. Stated on settled      *)
(* states: every task was reviewed, every review returned PASS, and one    *)
(* pr.requested is on the bus.                                             *)
C6_ExactlyOnePrRequested ==
    (/\ PipeSettled
     /\ qaRuns # <<>>
     /\ \A i \in DOMAIN qaRuns : qaRuns[i].passed)
        => Len(EmittedOf("pr.requested")) = 1

----------------------------------------------------------------------------
(* C7: a failed review of a code.generated with qa_attempt =               *)
(* max_qa_retries makes QA emit exactly one qa.failed, mark the task       *)
(* qa_failed and emit no task.assigned; a failed review with qa_attempt <  *)
(* max_qa_retries makes it emit exactly one task.assigned for the task and *)
(* no qa.failed.                                                           *)
C7_FailedReviewOutcome ==
    \A i \in DOMAIN qaRuns :
        ~qaRuns[i].passed =>
            /\ qaRuns[i].attempt = maxQaRetries =>
                   qaRuns[i].out = <<"qa.failed">> /\ qaRuns[i].mark = "qa_failed"
            /\ qaRuns[i].attempt < maxQaRetries =>
                   qaRuns[i].out = <<"task.assigned">>

----------------------------------------------------------------------------
(* C8: with max_qa_retries = 2 and a reviewer that always fails the code   *)
(* with the same issues, the loop ends with exactly three task.assigned    *)
(* for the task, each turned into a code.generated by the developer, then  *)
(* exactly one qa.failed, and no pr.requested.                             *)
C8_QaExhaustion ==
    (/\ PipeSettled
     /\ maxQaRetries = 2
     /\ nTasks = 1
     /\ qaRuns # <<>>
     /\ \A i \in DOMAIN qaRuns : ~qaRuns[i].passed /\ qaRuns[i].issues = qaRuns[1].issues)
        => /\ Len(EmittedFor("task.assigned", 1)) = 3
           /\ Len(EmittedFor("code.generated", 1)) = 3
           /\ Len(EmittedFor("qa.failed", 1)) = 1
           /\ Len(EmittedOf("pr.requested")) = 0

----------------------------------------------------------------------------
(* C9: when the first review of a task fails with an issue X and every     *)
(* later review passes, a task.assigned for the task is re-published with  *)
(* X as feedback, the developer produces a code.generated for it with      *)
(* qa_attempt 1, a qa.passed with qa_attempt 1 is emitted and pr.requested *)
(* follows. Stated on settled states.                                      *)
C9_RetryThenPass ==
    \A t \in 1..nTasks :
        (/\ PipeSettled
         /\ maxQaRetries >= 1
         /\ RunsOf(t) # <<>>
         /\ ~RunsOf(t)[1].passed
         /\ \A i \in DOMAIN RunsOf(t) : i > 1 => RunsOf(t)[i].passed)
            => /\ \E i \in DOMAIN emitted :
                      /\ emitted[i].type = "task.assigned"
                      /\ emitted[i].task = t
                      /\ emitted[i].issues = RunsOf(t)[1].issues
               /\ \E i \in DOMAIN emitted :
                      /\ emitted[i].type = "code.generated"
                      /\ emitted[i].task = t
                      /\ emitted[i].attempt = 1
               /\ \E i \in DOMAIN emitted :
                      /\ emitted[i].type = "qa.passed"
                      /\ emitted[i].task = t
                      /\ emitted[i].attempt = 1
               /\ Len(EmittedOf("pr.requested")) >= 1

----------------------------------------------------------------------------
(* C10: in a single QA review, if the deterministic pass (the Python       *)
(* linter, or the dangerous-pattern scan) reports an issue, the review's   *)
(* result is FAIL with those issues and no LLM call is made in the review. *)
C10_StaticHitNoLlm ==
    /\ \A i \in DOMAIN qaRuns :
           StaticIssues(qaRuns[i].code) # {} =>
               /\ ~qaRuns[i].passed
               /\ qaRuns[i].issues = StaticIssues(qaRuns[i].code)
               /\ qaRuns[i].llmCalls = 0
    /\ (qaPc \in {"verdict", "retry", "failed"} /\ StaticIssues(qaLoc.msg.code) # {}) =>
           /\ ~ResultOf(qaLoc.result).passed
           /\ ResultOf(qaLoc.result).issues = StaticIssues(qaLoc.msg.code)
           /\ qaLoc.llmCalls = 0

C10_Witness ==
    \E i \in DOMAIN qaRuns :
        /\ qaRuns[i].code = "eval"
        /\ ~qaRuns[i].passed
        /\ qaRuns[i].issues = {"eval("}
        /\ qaRuns[i].llmCalls = 0

----------------------------------------------------------------------------
(* Reading the history of the security scan and of the approval gate *)

GateEmittedFor(types, plan) ==
    SelectSeq(gateEmitted, LAMBDA e : e.type \in types /\ e.plan = plan)

DecisionEvents(aid) ==
    SelectSeq(gateEmitted, LAMBDA e : /\ e.type \in {"pr.human_approved", "pr.human_rejected"}
                                      /\ e.approval_id = aid)

CallsWith(status) == SelectSeq(calls, LAMBDA c : c.status = status)

\* Alphabetical rank of a file path and of a rule name.
PathRank(p) == IF p = "a.py" THEN 1 ELSE 2

RuleNameRank(r) ==
    CASE r = "dangerous_eval" -> 1
      [] r = "hardcoded_api_key" -> 2
      [] OTHER -> 3

\* v comes no later than w in the order by (file_path, rule_name).
ViolationLeq(v, w) ==
    \/ PathRank(v[1]) < PathRank(w[1])
    \/ PathRank(v[1]) = PathRank(w[1]) /\ RuleNameRank(v[2]) <= RuleNameRank(w[2])

----------------------------------------------------------------------------
(* C11: for every scan, approved holds iff the violations list is empty,   *)
(* and each processed pr.requested makes the security service emit exactly *)
(* one event: security.approved when approved, security.blocked otherwise. *)
C11_ApprovedIffNoViolations ==
    /\ \A i \in DOMAIN scans :
           /\ scans[i].approved <=> scans[i].violations = <<>>
           /\ scans[i].out = <<IF scans[i].approved THEN "security.approved"
                                                    ELSE "security.blocked">>
           /\ Len(GateEmittedFor({"security.approved", "security.blocked"},
                                 scans[i].plan)) = 1
           /\ Len(GateEmittedFor({SecEventType(scans[i])}, scans[i].plan)) = 1
    /\ secPc # "idle" => (secLoc.sec.approved <=> secLoc.sec.violations = <<>>)

C11_Witness ==
    \E i \in DOMAIN scans :
        /\ ~scans[i].approved
        /\ Len(scans[i].violations) >= 2
        /\ scans[i].out = <<"security.blocked">>

----------------------------------------------------------------------------
(* C12: the violations of a scan are ordered by file_path and then by rule *)
(* name, whatever the order of the files given.                            *)
C12_StableOrder ==
    \A i \in DOMAIN scans :
        \A j, k \in DOMAIN scans[i].violations :
            j < k => ViolationLeq(scans[i].violations[j], scans[i].violations[k])

----------------------------------------------------------------------------
(* C13: every security.approved with approved = true and a non-empty       *)
(* pr_context that the gateway handles yields exactly one                  *)
(* pipeline.conclusion, exactly one pr.pending_approval and exactly one    *)
(* new entry of the pending set; one with an empty pr_context yields none  *)
(* of them.                                                                *)
C13_OnePendingPerApproved ==
    \A i \in DOMAIN intercepts :
        LET r == intercepts[i] IN
        /\ (r.sec.approved /\ ~r.sec.pr_context.empty) =>
               /\ r.out = <<"pipeline.conclusion", "pr.pending_approval">>
               /\ Cardinality(r.added) = 1
               /\ Len(GateEmittedFor({"pipeline.conclusion"}, r.sec.plan)) = 1
               /\ Len(GateEmittedFor({"pr.pending_approval"}, r.sec.plan)) = 1
        /\ r.sec.pr_context.empty =>
               /\ r.out = <<>>
               /\ r.added = {}
               /\ Len(GateEmittedFor({"pipeline.conclusion", "pr.pending_approval"},
                                     r.sec.plan)) = 0

C13_Witness ==
    /\ \E i \in DOMAIN intercepts :
           /\ intercepts[i].sec.approved
           /\ ~intercepts[i].sec.pr_context.empty
           /\ intercepts[i].added # {}
    /\ \E i \in DOMAIN intercepts :
           intercepts[i].sec.approved /\ intercepts[i].sec.pr_context.empty

----------------------------------------------------------------------------
(* C14: a pr.human_approved for an approval is emitted only after that     *)
(* approval was created as pending, and only as the result of an approve   *)
(* call on its approval_id: without an approve call, no sequence of bus    *)
(* events produces one.                                                    *)
C14_HumanApprovedNeedsApprove ==
    \A i \in DOMAIN gateEmitted :
        gateEmitted[i].type = "pr.human_approved" =>
            /\ gateEmitted[i].approval_id \in 1..(nextApproval - 1)
            /\ \E k \in DOMAIN calls :
                   /\ calls[k].decision = "approved"
                   /\ calls[k].approval_id = gateEmitted[i].approval_id
                   /\ calls[k].status = 200
                   /\ calls[k].approval_id \in calls[k].before

C14_Witness ==
    /\ \E i \in DOMAIN gateEmitted : gateEmitted[i].type = "pr.human_approved"
    /\ \E k \in DOMAIN calls : calls[k].decision = "approved" /\ calls[k].status = 404

----------------------------------------------------------------------------
(* C15: for each approval_id, under any interleaving of approve and reject *)
(* calls, at most one decision event is emitted; a decision removes the    *)
(* entry from the pending set; a call with an unknown or already decided   *)
(* approval_id returns 404, emits no event and leaves the pending set      *)
(* unchanged.                                                              *)
C15_AtMostOneDecision ==
    /\ \A aid \in 0..(nextApproval - 1) :
           Len(DecisionEvents(aid)) <= (IF aid = 0 THEN 0 ELSE 1)
    /\ \A k \in DOMAIN calls :
           /\ calls[k].status = 404 <=> calls[k].approval_id \notin calls[k].before
           /\ calls[k].status = 404 => calls[k].after = calls[k].before
           /\ calls[k].status = 200 => calls[k].after = calls[k].before \ {calls[k].approval_id}
    /\ Len(SelectSeq(gateEmitted,
                     LAMBDA e : e.type \in {"pr.human_approved", "pr.human_rejected"}))
         + Cardinality({h \in Humans : httpPc[h] = "publish"})
       = Len(CallsWith(200))

C15_Witness ==
    /\ Len(calls) = 2
    /\ calls[1].approval_id = calls[2].approval_id
    /\ calls[1].decision # calls[2].decision
    /\ calls[1].status = 200
    /\ calls[2].status = 404
    /\ \E h \in Humans : httpPc[h] = "publish"

----------------------------------------------------------------------------
(* Reading the history of the long retry chain *)

MalformedSent == Len(trace["producer"])

\* Nothing is left to do for q (malformed bodies included).
Drained(q) ==
    /\ queue[q] = <<>>
    /\ \A c \in Consumers : pc[c] \in {"idle", "absent"}

BadInDlq(q) == SelectSeq(dlq[q], LAMBDA m : m.bad)

----------------------------------------------------------------------------
----------------------------------------------------------------------------
(* C19: a message whose body is malformed or fails envelope validation is  *)
(* treated as a handler failure: the handler is never invoked for it, it   *)
(* is re-published with x-retry-count incremented, and after max_retries   *)
(* deliveries it is in dlq.<queue>.                                        *)
C19_MalformedIsHandlerFailure ==
    \A q \in Queues :
        /\ \A i \in DOMAIN trace[q] : trace[q][i][1] = "call" => ~trace[q][i][3]
        /\ \A i \in DOMAIN trace[q] :
               (trace[q][i][1] = "invalid" /\ i < Len(trace[q])) =>
                   IF trace[q][i][2] < maxRetries[q] - 1
                   THEN /\ trace[q][i + 1][1] = "sleep"
                        /\ i + 2 <= Len(trace[q])
                        /\ trace[q][i + 2] = <<"repub", trace[q][i][2] + 1, TRUE>>
                   ELSE trace[q][i + 1] = <<"dlx", trace[q][i][2], TRUE>>
        /\ (Active(q) # {} /\ Drained(q)) =>
               /\ Count(q, "invalid") = maxRetries[q] * MalformedSent
               /\ Len(BadInDlq(q)) = MalformedSent
               /\ \A i \in DOMAIN BadInDlq(q) :
                      BadInDlq(q)[i].final /\ BadInDlq(q)[i].rc = maxRetries[q] - 1

C19_Witness ==
    \E q \in Queues :
        /\ Active(q) # {}
        /\ Drained(q)
        /\ maxRetries[q] = 3
        /\ MalformedSent = 1
        /\ Count(q, "invalid") = 3
        /\ Count(q, "call") >= 1
        /\ Len(BadInDlq(q)) = 1

\* C16: store_event returns false exactly when a row with the same
\* event_id already exists, the event log never holds two rows with the
\* same event_id, and no call fails, also when two calls for the same
\* event_id run concurrently.
C16_StoreEventOnce ==
    /\ \A i, j \in DOMAIN memEvents :
         memEvents[i].event_id = memEvents[j].event_id => i = j
    /\ \A i \in DOMAIN storeCalls :
         /\ storeCalls[i].result \in {"true", "false"}
         /\ storeCalls[i].result = "false" <=> storeCalls[i].existed

\* C17: every envelope that passed validation (here: rebuilt from a POST
\* /events body) carries idempotency_key = hash(event_type ++
\* canonical_json(payload)), so envelopes with equal (event_type, payload)
\* carry the same key.
C17_KeyIsHash ==
    /\ \A i \in DOMAIN storeCalls :
         storeCalls[i].event.key =
             Hash(storeCalls[i].event.type, storeCalls[i].event.payload)
    /\ \A i, j \in DOMAIN storeCalls :
         (/\ storeCalls[i].event.type = storeCalls[j].event.type
          /\ storeCalls[i].event.payload = storeCalls[j].event.payload)
         => storeCalls[i].event.key = storeCalls[j].event.key

PlansCreated(out, plan) ==
    SelectSeq(out, LAMBDA e : e.type = "plan.created" /\ e.plan = plan)

\* C20: a plan.revision_suggested of severity high or critical whose
\* original plan.created is in Memory makes the planner execute a new plan
\* whose plan.created carries the supplied new_plan_id; for any other
\* severity the planner emits no plan.created and no task.assigned.
C20_RevisionBySeverity ==
    \A i \in DOMAIN revRuns :
      LET r == revRuns[i] IN
        /\ (Replans(r.rev.severity) /\ r.found)
             => Len(PlansCreated(r.out, r.rev.new_plan_id)) = 1
        /\ ~Replans(r.rev.severity) => r.out = <<>>

RevisionPayloads ==
    [original_plan_id : 1..MaxPlans,
     new_plan_id : {NewPlanId(n) : n \in 1..MaxRevisions},
     severity : Severities]

Confirmed(rev) == \E i \in DOMAIN revSent.confirmed : revSent.confirmed[i] = rev

PlanRunUnder(plan) ==
    \E i \in DOMAIN revRuns : PlansCreated(revRuns[i].out, plan) # <<>>

\* C21: once a plan.revision_confirmed reusing a suggested new_plan_id has
\* been published, the planner eventually emits a plan.created whose
\* plan_id is that new_plan_id.
C21_ConfirmedRunsPlan ==
    \A rev \in RevisionPayloads :
      Confirmed(rev) ~> PlanRunUnder(rev.new_plan_id)

EvalGenerated ==
    \E i \in DOMAIN emitted :
      /\ emitted[i].type = "code.generated"
      /\ StaticCheck(emitted[i].code) # {}

SecurityBlocked ==
    \E i \in DOMAIN gateEmitted : gateEmitted[i].type = "security.blocked"

\* C22: when the code generated for a task contains the literal eval(,
\* the pipeline eventually emits security.blocked for the plan (which the
\* replanner's plan.revision_suggested follows).
C22_EvalReachesSecurity == EvalGenerated ~> SecurityBlocked

\* C28: the prompt the replanner sends to the LLM for a security.blocked
\* outcome includes the directive that the suggestions must address every
\* violation; for a qa.failed outcome the directive is absent.
C28_DirectiveOnSecurityBlocked ==
    \A i \in DOMAIN repRuns :
      repRuns[i].prompt.directive <=> repRuns[i].event = "security.blocked"

WithinTtl(a, b) == a.now - b.now < IdemTtlSeconds /\ b.now - a.now < IdemTtlSeconds

\* C23: of any two requests to POST /plan with the same (prompt,
\* project_name, repo_url) issued within the TTL of each other, also when
\* the second arrives while the first is still executing, only one
\* executes a plan and both are answered with the same plan_id.
C23_PlanIdempotentInTtl ==
    \A i, j \in DOMAIN planCalls :
      (i # j /\ planCalls[i].key = planCalls[j].key
             /\ WithinTtl(planCalls[i], planCalls[j]))
      => /\ planCalls[i].plan_id = planCalls[j].plan_id
         /\ ~(planCalls[i].executed /\ planCalls[j].executed)

TypeSet(types) == {types[i] : i \in DOMAIN types}

\* The points a search with these arguments is to draw from.
Candidates(ix, plan, types) ==
    SelectSeq(ix, LAMBDA p : /\ plan # 0 => p.plan_id = plan
                             /\ types # <<>> => p.event_type \in TypeSet(types))

\* C25: semantic_search filters before scoring and returns its results by
\* descending heuristic score: with plan_id set every result has that
\* plan_id, and with event_types = [t1..tn] the candidates are exactly the
\* indexed points whose event_type is one of t1..tn (all of them are
\* returned when the limit does not cut).
C25_SearchFiltersThenSorts ==
    search.done =>
      /\ \A i, j \in DOMAIN search.result :
           i < j => Heuristic(search.result[i]) >= Heuristic(search.result[j])
      /\ search.plan_id # 0 =>
           \A i \in DOMAIN search.result : search.result[i].plan_id = search.plan_id
      /\ search.limit >= Len(index) =>
           search.result = SortScored(Candidates(index, search.plan_id, search.event_types))

Supplied(qa) == CHOOSE n \in qa : TRUE

\* C26: update_task touches only the row of the given task_id; on an
\* existing row status is overwritten, code keeps its value when the new
\* one is empty and is overwritten otherwise, and qa_attempt is overwritten
\* exactly when supplied; a new row gets the values given.
C26_UpdateTaskUpsert ==
    taskCall.n > 0 =>
      LET t == taskCall.task
          old == taskCall.before[t]
          new == taskCall.after[t] IN
        /\ \A u \in Tasks \ {t} : taskCall.after[u] = taskCall.before[u]
        /\ new.status = taskCall.status
        /\ new.code = IF taskCall.code # "" \/ old = NoRow THEN taskCall.code ELSE old.code
        /\ new.qa_attempt = IF taskCall.qa # {} THEN Supplied(taskCall.qa)
                            ELSE old.qa_attempt

\* C27: a failure while indexing an event into the vector store never
\* fails store_event: the row is committed and the result is true.
C27_IndexFailureTolerated ==
    \A i \in DOMAIN storeCalls :
      storeCalls[i].index = "failed" =>
        /\ storeCalls[i].result = "true"
        /\ Existing(memEvents, storeCalls[i].event.event_id)

C27_Witness ==
    \E i \in DOMAIN storeCalls :
      /\ storeCalls[i].index = "failed"
      /\ storeCalls[i].result = "true"
      /\ \E j \in DOMAIN memEvents : memEvents[j] = EventLogRow(storeCalls[i].event)

\* An event of one of these types about task t was emitted before position i.
EmittedBefore(i, types, t) ==
    \E j \in 1..(i - 1) : emitted[j].type \in types /\ emitted[j].task = t

\* C24: the events of a plan are emitted in causal order (task.assigned
\* before the task's code.generated before its qa.passed; pr.requested only
\* after a qa.passed of every task), and in a run where every review
\* passes no qa.failed is emitted and no message reaches a dead-letter
\* queue.
C24_CausalOrderCleanRun ==
    /\ \A i \in DOMAIN emitted :
         /\ emitted[i].type = "code.generated"
              => EmittedBefore(i, {"task.assigned"}, emitted[i].task)
         /\ emitted[i].type = "qa.passed"
              => EmittedBefore(i, {"code.generated"}, emitted[i].task)
         /\ emitted[i].type = "pr.requested"
              => \A t \in 1..nTasks : EmittedBefore(i, {"qa.passed"}, t)
    /\ (qaRuns # <<>> /\ \A i \in DOMAIN qaRuns : qaRuns[i].passed)
         => /\ \A i \in DOMAIN emitted : emitted[i].type # "qa.failed"
            /\ \A s \in DOMAIN svcDlq : svcDlq[s] = <<>>

\* The moves of a task's status the lifecycle allows.
StatusEdges ==
    {<<"none", "in_progress">>, <<"in_progress", "completed">>,
     <<"completed", "qa_passed">>, <<"completed", "qa_retry">>,
     <<"completed", "qa_failed">>, <<"qa_retry", "in_progress">>}

StatusMove(t) ==
    \/ memTasks'[t].status = memTasks[t].status
    \/ <<memTasks[t].status, memTasks'[t].status>> \in StatusEdges

AttemptsOf(t) ==
    SelectSeq(emitted, LAMBDA e : e.type = "code.generated" /\ e.task = t)

\* A review has just ended in a retry of task t.
RetriedNow(t) ==
    /\ Len(qaRuns') = Len(qaRuns) + 1
    /\ qaRuns'[Len(qaRuns')].task = t
    /\ qaRuns'[Len(qaRuns')].out = <<"task.assigned">>

\* C30: for every task the qa_attempt stored in Memory and the qa_attempt
\* of its successive code.generated events never decrease, each retry QA
\* triggers increases the stored value by exactly 1, and it never exceeds
\* max_qa_retries.
C30_QaAttemptCounts ==
    [][\A t \in Tasks :
         /\ memTasks'[t].qa_attempt >= memTasks[t].qa_attempt
         /\ memTasks'[t].qa_attempt <= maxQaRetries
         /\ RetriedNow(t) => memTasks'[t].qa_attempt = memTasks[t].qa_attempt + 1
         /\ \A i, j \in DOMAIN AttemptsOf(t) :
              i < j => AttemptsOf(t)[i].attempt <= AttemptsOf(t)[j].attempt]_vars

\* C31: with one consumer on a queue at most one handler invocation is in
\* progress at any time, and the first handlings of the messages follow
\* the order in which they were enqueued (message n is the n-th enqueued),
\* also while an earlier failed message sleeps before its retry.
FirstHandled == SelectSeq(handled, LAMBDA d : d.rc = 0)

C31_OneHandlerFifo ==
    /\ Cardinality(Unacked(callbacks)) <= 1
    /\ \A i \in 1..Len(FirstHandled) : FirstHandled[i].id = i

\* A later message is in its handler while an earlier one sleeps.
C31_Witness ==
    \E s \in callbacks, h \in callbacks :
        /\ s.stage = "sleep"
        /\ h.stage = "handler"
        /\ h.rc = 0
        /\ h.id > s.id

\* What executing a plan of n tasks under plan_id publishes, in order.
ExecOut(plan, n) ==
    <<RevOut("plan.created", plan, 0, n)>> \o [i \in 1..n |-> RevOut("task.assigned", plan, i, 0)]

IsPrefix(s, t) == Len(s) <= Len(t) /\ \A i \in DOMAIN s : s[i] = t[i]

\* out is what an execution under plan has published so far.
ExecutionSoFar(out, plan) ==
    out # <<>> => /\ out[1].type = "plan.created"
                  /\ IsPrefix(out, ExecOut(plan, out[1].tasks))

AlreadyGenerated ==
    \E i \in DOMAIN memEvents :
      memEvents[i].type = "code.generated" /\ memEvents[i].task = devLoc.msg.task

\* C33: a task.assigned whose task already has a code.generated in the
\* event log is skipped (nothing published, no task-state write); one whose
\* task has none goes on to publish its code.generated, whatever other
\* tasks' code.generated events the log holds.
C33_SkipOrGenerateOnce ==
    [][/\ (devPc = "check" /\ devPc' # devPc /\ AlreadyGenerated)
           => (devPc' = "idle" /\ UNCHANGED <<emitted, memTasks>>)
       /\ (devPc = "check" /\ devPc' # devPc /\ ~AlreadyGenerated)
           => devPc' = "in_progress"
       /\ (devPc = "generate" /\ devPc' # devPc) => devPc' = "publish"]_vars

Suppressed(f) == f.next \notin {"sleep", "to_dlq"}

Unpublished == {"in_progress", "tokens_used"}

PassedWith(t, code) ==
    \E i \in DOMAIN emitted :
      /\ emitted[i].type = "qa.passed"
      /\ emitted[i].task = t
      /\ emitted[i].code = code

C36_RetryStaysInItsQueue ==
    \A q \in Queues : Count(q, "fail") = 0 => Count(q, "call") <= 1

\* C37: a message whose retries are exhausted in queue Q is added to dlq.Q
\* only: the dead-letter queue of a subscription whose own handler did not
\* fail stays empty.
C37_DeadLetterStaysInItsQueue ==
    \A q \in Queues : Count(q, "fail") = 0 => dlq[q] = <<>>

\* C38: whenever security.approved is emitted for a pr.requested,
\* files_scanned is the number of files of that pr.requested (no file of an
\* approved PR was skipped), and it is never 0.
C38_ApprovedScansEveryFile ==
    \A i \in DOMAIN scans :
      scans[i].approved =>
        /\ scans[i].files_scanned = Len(scans[i].pr_context.files)
        /\ scans[i].files_scanned > 0

\* The request that popped approval id has not answered yet.
Deciding(id) ==
    \E h \in Humans : httpPc[h] = "publish" /\ httpLoc[h].approval_id = id

DecisionPublished(id) ==
    \E i \in DOMAIN gateEmitted :
      /\ gateEmitted[i].type \in {"pr.human_approved", "pr.human_rejected"}
      /\ gateEmitted[i].approval_id = id

\* C39: an approval leaves the pending set only if its pr.human_approved /
\* pr.human_rejected was published: once the request that decided it has
\* answered, the approval is still pending or its decision is on the bus.
C39_RemovedOnlyIfPublished ==
    \A i \in DOMAIN calls :
      (calls[i].status = 200 /\ ~Deciding(calls[i].approval_id))
        => \/ calls[i].approval_id \in DOMAIN pendingApprovals
           \/ DecisionPublished(calls[i].approval_id)

\* Executions of the planner that published a plan.created under plan:
\* the finished runs of the callback and the one in progress.
ExecutionsOf(plan) ==
    Cardinality({i \in DOMAIN revRuns : PlansCreated(revRuns[i].out, plan) # <<>>})
      + (IF revPc \in {"store", "assign"} /\ PlansCreated(revLoc.out, plan) # <<>>
         THEN 1 ELSE 0)

====
